---------------------------- MODULE Spec2Model ----------------------------
(***************************************************************************)
(* Local-first synchronization engine of the rating app: StorageService    *)
(* (five in-memory tables, the promise-chain task queue, the readiness     *)
(* gate, the auth subscription) together with the parts of AuthService and *)
(* of the server endpoints that decide what a queued task does, and the    *)
(* player: MusicPlayerService (queue navigation) and App.closePlayer.      *)
(*                                                                         *)
(* One step of the model is one JavaScript macrotask: a public call made   *)
(* by a component, an emission of the auth stream, or an HTTP response.    *)
(* The continuation of a promise that is already settled is a microtask;   *)
(* microtasks run before the next macrotask, which is what MicrotaskPending *)
(* expresses.                                                              *)
(***************************************************************************)
EXTENDS Integers, Sequences, FiniteSets, TLC

\* ------------------------------------------------------------------ bounds
MaxEvents == 2

\* ------------------------------------------------------------- value sets
Users == {"A", "B"}
NoUser == "none"
NullKey == "null"
Keys == Users \cup {NullKey}
Songs == {"s1", "s2"}
ThemeIds == {"t1", "t2"}
PlaylistIds == {"p1", "p2"}
Names == {"Workout"}
NewNames == {"Chill"}
Colors == {"#ff0000"}
NoRating == -1
None == "-"

MinRating == 1
MaxRating == 10
QueueRatings == {7}
ImportBatches == {{"s1"}, {"s1", "s2"}}
AddBatches == {<<"s1", "s2">>, <<"s2", "s2", "s1">>}

\* ---------------------------------------------------------------- helpers
EmptyMap == [x \in {} |-> 0]

Has(f, k) == k \in DOMAIN f

Put(f, k, v) == [x \in (DOMAIN f) \cup {k} |-> IF x = k THEN v ELSE f[x]]

Drop(f, k) == [x \in (DOMAIN f) \ {k} |-> f[x]]

SetToSeq(S) == CHOOSE q \in [1..Cardinality(S) -> S] : \A i, j \in 1..Cardinality(S) : i # j => q[i] # q[j]

SeqToSet(q) == {q[i] : i \in 1..Len(q)}

Includes(q, x) == \E i \in 1..Len(q) : q[i] = x

Filter(q, x) == SelectSeq(q, LAMBDA y : y # x)

\* ------------------------------------------------------------------ state
VARIABLES
  remoteEnabled,    \* environment.remoteStorageEnabled
  authUser,         \* AuthService.currentUserSubject.value (its id) or NoUser
  tokenOwner,       \* account the stored access token authenticates
  tokenFresh,       \* tokenExpiry is more than five minutes away
  hasRefresh,       \* the stored user carries a refresh token
  currentUserId,    \* StorageService.currentUserId
  readyState,       \* state of StorageService.readyPromise
  ratingsDb, themesDb, songThemesDb, importedSongsDb, localPlaylistsDb,
  remote,           \* server rows per account
  freshThemeIds,    \* theme ids createTheme has not generated yet
  freshPlaylistIds, \* playlist ids createLocalPlaylist has not generated yet
  queue,            \* links of the remoteQueue chain whose task has not started
  running,          \* the task whose promise is unsettled, with its await point
  inflight,         \* HTTP requests of ApiService that have not been answered
  chain,            \* settlement of the remoteQueue promise once its tasks ran
  submitted,        \* number of calls of schedule
  status,           \* per submitted task: queued, running, ok, failed, noop
  calls,            \* per submitted task: number of ApiService invocations
  opOf,             \* per submitted task: what it was scheduled to do
  lastCallTask,     \* task that issued the latest ApiService invocation
  eventCount,       \* calls of components and auth events so far
  waiter,           \* the promise a caller of waitUntilReady awaits
  ledger,           \* deletes and additions made in this session and not revoked
  returned,         \* what the latest call of a read method returned
  player,           \* MusicPlayerService.stateSubject.value
  app               \* fields of the App component and its YouTube player

tables == <<ratingsDb, themesDb, songThemesDb, importedSongsDb, localPlaylistsDb>>
session == <<authUser, tokenOwner, tokenFresh, hasRefresh, currentUserId, readyState>>
ghost == <<submitted, status, calls, opOf, lastCallTask>>
budget == <<eventCount>>
ids == <<freshThemeIds, freshPlaylistIds>>
frontend == <<returned, player, app>>
vars == <<remoteEnabled, session, tables, remote, ids, queue, running, inflight, chain, ghost, budget, waiter, ledger, frontend>>

NoTheme == [id |-> None, userId |-> None, name |-> None, color |-> None]
NoPlaylist == [id |-> None, userId |-> None, name |-> None, songIds |-> <<>>, starred |-> FALSE, createdAt |-> 0]

\* A link of the chain: the closure handed to schedule, with what it captured.
\* live says that the captured playlist is the very object the playlists
\* table holds, so that the task sees what later calls push onto its songIds.
NoTask ==
  [id |-> 0, op |-> None, userId |-> None, songId |-> None, rating |-> 0, themeId |-> None,
   playlistId |-> None, idSet |-> {}, theme |-> NoTheme, playlist |-> NoPlaylist, live |-> FALSE]

Idle == [task |-> NoTask, phase |-> None, refreshOwner |-> None]

\* Nothing was read yet.
NoResult == [op |-> None, args |-> <<>>, value |-> <<>>]

\* A song of the player; songs are numbered, 0 stands for null.
NoSong == [id |-> 0, videoAvailabilityStatus |-> None]

\* The value JavaScript gives for an element outside an array.
Undefined == [id |-> 0, videoAvailabilityStatus |-> "undefined"]

\* MusicPlayerService.initialState
initialState ==
  [queue |-> <<>>, currentIndex |-> -1, currentSong |-> NoSong, isPlaying |-> FALSE, miniPlayerVisible |-> FALSE]

\* The App component after construction.  confirming says that closePlayer
\* awaits the answer to its dialog; asked, closeCalls and destroyCalls count
\* the calls of ModalService.confirm by closePlayer, of
\* MusicPlayerService.closePlayer and of ytPlayer.stopVideo and destroy by
\* finalizePlayerClose.
NewApp ==
  [playingSongId |-> 0, miniPlayerVisible |-> FALSE, ytPlayer |-> "null", playerReady |-> FALSE,
   isPlaying |-> FALSE, showQueue |-> FALSE, confirming |-> FALSE, asked |-> 0, closeCalls |-> 0,
   destroyCalls |-> 0]

BulkOps == {"clearRatings", "clearImportedSongs", "clearPlaylists"}

\* ------------------------------------------------------------ remote store
\* Rows of the server tables user_songs, themes, song_themes and playlists.
SeedRemote ==
  [userSongs |-> [k \in {<<"A", "s1">>, <<"A", "s2">>} |-> IF k[2] = "s1" THEN 5 ELSE 8],
   themes |-> [k \in {"t1"} |-> [id |-> "t1", userId |-> "A", name |-> "Workout", color |-> "#ff0000"]],
   songThemes |-> {<<"A", "s1", "t1">>},
   playlists |-> [k \in {"p1"} |->
      [id |-> "p1", userId |-> "A", name |-> "Workout", songIds |-> <<"s1">>, starred |-> FALSE, createdAt |-> 0]]]

parseRating(value) == value >= MinRating /\ value <= MaxRating

\* The request is answered with an error instead of being carried out.
ServerRejects(c) == c.op = "saveRating" /\ ~parseRating(c.rating)

UpsertUserSongs(rows, a, songIds) ==
  [k \in (DOMAIN rows) \cup {<<a, s>> : s \in songIds} |->
     IF k \in DOMAIN rows THEN rows[k] ELSE NoRating]

\* Effect of a request carried out for the account a its bearer token names.
ApplyRemote(r, c) ==
  LET a == c.token IN
  CASE c.op = "saveRating" -> [r EXCEPT !.userSongs = Put(@, <<a, c.songId>>, c.rating)]
    [] c.op = "deleteRating" -> [r EXCEPT !.userSongs = Drop(@, <<a, c.songId>>)]
    [] c.op = "saveImportedSongs" -> [r EXCEPT !.userSongs = UpsertUserSongs(@, a, c.idSet)]
    [] c.op = "removeImportedSong" -> [r EXCEPT !.userSongs = Drop(@, <<a, c.songId>>)]
    [] c.op = "saveTheme" -> [r EXCEPT !.themes = Put(@, c.theme.id, [c.theme EXCEPT !.userId = a])]
    [] c.op = "deleteTheme" ->
         [r EXCEPT !.themes = IF Has(@, c.themeId) /\ @[c.themeId].userId = a THEN Drop(@, c.themeId) ELSE @]
    [] c.op = "assignTheme" -> [r EXCEPT !.songThemes = @ \cup {<<a, c.songId, c.themeId>>}]
    [] c.op = "removeTheme" -> [r EXCEPT !.songThemes = @ \ {<<a, c.songId, c.themeId>>}]
    [] c.op = "savePlaylist" -> [r EXCEPT !.playlists = Put(@, c.playlist.id, [c.playlist EXCEPT !.userId = a])]
    [] c.op = "deletePlaylist" ->
         [r EXCEPT !.playlists =
            IF Has(@, c.playlistId) /\ @[c.playlistId].userId = a THEN Drop(@, c.playlistId) ELSE @]
    [] OTHER -> r

\* Body of the answer to a saveTheme or savePlaylist request.
SavedTheme(c) == [c.theme EXCEPT !.userId = c.token]

SavedPlaylist(c) == [c.playlist EXCEPT !.userId = c.token]

\* GET /api/library for account a.
Library(r, a) ==
  LET mine == {s \in Songs : Has(r.userSongs, <<a, s>>)} IN
  [owner |-> a,
   songs |-> mine,
   ratings |-> [s \in {x \in mine : r.userSongs[<<a, x>>] # NoRating} |-> r.userSongs[<<a, s>>]],
   themes |-> [t \in {x \in DOMAIN r.themes : r.themes[x].userId = a} |-> r.themes[t]],
   songThemes |-> SetToSeq({<<l[2], l[3]>> : l \in {x \in r.songThemes : x[1] = a}}),
   playlists |-> [p \in {x \in DOMAIN r.playlists : r.playlists[x].userId = a} |-> r.playlists[p]]]

\* ------------------------------------------------------ apply-from-snapshot
applyRatings(db, userId, library) ==
  Put(db, userId, [s \in DOMAIN library.ratings |-> [rating |-> library.ratings[s], origin |-> library.owner]])

applyImportedSongs(db, userId, library) ==
  Put(db, userId, [s \in library.songs |-> [id |-> s, origin |-> library.owner]])

\* An applyThemes that merges the payload into the table it finds.
applyThemesMerging(db, userId, library) ==
  Put(db, userId, [t \in (IF Has(db, userId) THEN DOMAIN db[userId] ELSE {}) \cup (DOMAIN library.themes) |->
                    IF t \in DOMAIN library.themes THEN library.themes[t] ELSE db[userId][t]])

applyThemes(db, userId, library) ==
  Put(db, userId, [t \in DOMAIN library.themes |-> library.themes[t]])

\* Every link of the payload is pushed onto the list of its song.
applySongThemes(db, userId, library) ==
  LET links == library.songThemes
      of(s) == SelectSeq(links, LAMBDA l : l[1] = s)
  IN  Put(db, userId, [s \in {links[i][1] : i \in 1..Len(links)} |-> [j \in 1..Len(of(s)) |-> of(s)[j][2]]])

applyPlaylists(db, userId, library) ==
  Put(db, userId, [p \in DOMAIN library.playlists |-> library.playlists[p]])

\* A missing currentUserId is used as the property name "null".
KeyOf(userId) == IF userId = NoUser THEN NullKey ELSE userId

\* --------------------------------------------------------- StorageService
\* The fields of the StorageService object; its methods map one value of
\* this record to the next, and an action commits the result of a handler.
Self ==
  [currentUserId |-> currentUserId, readyState |-> readyState,
   ratingsDb |-> ratingsDb, themesDb |-> themesDb, songThemesDb |-> songThemesDb,
   importedSongsDb |-> importedSongsDb, localPlaylistsDb |-> localPlaylistsDb,
   queue |-> queue, submitted |-> submitted, status |-> status, calls |-> calls, opOf |-> opOf,
   waiter |-> waiter, ledger |-> ledger]

Commit(s) ==
  /\ currentUserId' = s.currentUserId
  /\ readyState' = s.readyState
  /\ ratingsDb' = s.ratingsDb
  /\ themesDb' = s.themesDb
  /\ songThemesDb' = s.songThemesDb
  /\ importedSongsDb' = s.importedSongsDb
  /\ localPlaylistsDb' = s.localPlaylistsDb
  /\ queue' = s.queue
  /\ submitted' = s.submitted
  /\ status' = s.status
  /\ calls' = s.calls
  /\ opOf' = s.opOf
  /\ waiter' = s.waiter
  /\ ledger' = s.ledger

UserTable(db, userId) == IF Has(db, userId) THEN db[userId] ELSE EmptyMap

\* The ledger remembers what calls that have returned did to a record: a
\* theme or playlist was deleted, a song was added to a playlist.  An entry
\* goes when the record is explicitly changed again, when a hydration is
\* applied for the user and when the session ends.
Deleted(kind, userId, id) == [kind |-> kind, userId |-> userId, id |-> id, songId |-> None]

Added(userId, playlistId, songId) == [kind |-> "song", userId |-> userId, id |-> playlistId, songId |-> songId]

Noting(s, entries) == [s EXCEPT !.ledger = @ \cup entries]

Forget(s, userId) == [s EXCEPT !.ledger = {x \in @ : x.userId # userId}]

Revoke(s, userId, id) == [s EXCEPT !.ledger = {x \in @ : ~(x.userId = userId /\ x.id = id)}]

\* A reset that keeps the promise the service already has.
resetReadyPromiseKeeps(s, resolveImmediately) == s

\* A new readyPromise and its resolver replace the old ones; the new promise
\* is resolved at once on request.  A caller that awaits the old promise while
\* it is pending is left with a promise whose resolver nobody holds.
resetReadyPromise(s, resolveImmediately) ==
  [s EXCEPT !.readyState = IF resolveImmediately THEN "Resolved" ELSE "Pending",
            !.waiter = IF @ = "current" THEN "replaced" ELSE @]

\* A markReady that calls no resolver.
markReadyNever(s) == s

\* The resolver the service holds is called: who awaits its promise goes on.
markReady(s) ==
  [s EXCEPT !.readyState = "Resolved",
            !.waiter = IF @ = "current" THEN "returned" ELSE @]

\* A schedule that runs the newest task first.
scheduleNewestFirst(s, task) ==
  LET id == s.submitted + 1 IN
  [s EXCEPT !.queue = <<[task EXCEPT !.id = id]>> \o @,
            !.submitted = id,
            !.status = Append(@, "queued"),
            !.calls = Append(@, 0),
            !.opOf = Append(@, task.op)]

\* remoteQueue = remoteQueue.then(task): the task becomes the last link.
schedule(s, task) ==
  LET id == s.submitted + 1 IN
  [s EXCEPT !.queue = Append(@, [task EXCEPT !.id = id]),
            !.submitted = id,
            !.status = Append(@, "queued"),
            !.calls = Append(@, 0),
            !.opOf = Append(@, task.op)]

\* A schedule without its .catch handlers: the rejection stays in the chain.
CatchRejectionMissing(outcome) == outcome

\* Both .catch handlers of schedule: a rejected task leaves the chain fulfilled.
CatchRejection(outcome) == "fulfilled"

\* An enqueue that forgets the task when another one is running.
enqueueDropsWhenBusy(s, task) ==
  LET id == s.submitted + 1 IN
  [s EXCEPT !.queue = IF running # Idle THEN @ ELSE Append(@, [task EXCEPT !.id = id]),
            !.submitted = id,
            !.status = Append(@, "queued"),
            !.calls = Append(@, 0),
            !.opOf = Append(@, task.op)]

enqueueAuthorizedTask(s, task) == IF ~remoteEnabled THEN s ELSE schedule(s, task)

\* A test that takes every user for the active one.
isCurrentUserAlways(s, userId) == TRUE

isCurrentUser(s, userId) == s.currentUserId # NoUser /\ s.currentUserId = userId

\* The table of userId is about to get new objects for the playlists
\* playlistIds (or to lose them): a queued task that captured one of the old
\* objects keeps it as it is now.  (A task that awaits its token has left the
\* queue; no specification below lets a task with a live playlist wait there.)
Detach(s, userId, playlistIds) ==
  [s EXCEPT !.queue =
     [i \in 1..Len(s.queue) |->
        LET t == s.queue[i] IN
        IF t.live /\ t.userId = userId /\ t.playlist.id \in playlistIds
        THEN [t EXCEPT !.playlist = UserTable(s.localPlaylistsDb, userId)[t.playlist.id], !.live = FALSE]
        ELSE t]]

\* The playlist a task hands to ApiService.savePlaylist when it calls it.
Deref(s, t) ==
  IF t.live /\ Has(UserTable(s.localPlaylistsDb, t.userId), t.playlist.id)
  THEN [t EXCEPT !.playlist = s.localPlaylistsDb[t.userId][t.playlist.id], !.live = FALSE]
  ELSE [t EXCEPT !.live = FALSE]

\* A purge that forgets the playlists table.
clearLocalDataKeepingPlaylists(s, userId) ==
  [s EXCEPT !.ratingsDb = Drop(@, userId),
            !.themesDb = Drop(@, userId),
            !.songThemesDb = Drop(@, userId),
            !.importedSongsDb = Drop(@, userId)]

clearLocalDataForUser(s, userId) ==
  [Forget(Detach(s, userId, DOMAIN UserTable(s.localPlaylistsDb, userId)), userId)
     EXCEPT !.ratingsDb = Drop(@, userId),
            !.themesDb = Drop(@, userId),
            !.songThemesDb = Drop(@, userId),
            !.importedSongsDb = Drop(@, userId),
            !.localPlaylistsDb = Drop(@, userId)]

hydrateCache(s, userId, library) ==
  [Forget(Detach(s, userId, DOMAIN UserTable(s.localPlaylistsDb, userId)), userId)
     EXCEPT !.ratingsDb = applyRatings(@, userId, library),
            !.importedSongsDb = applyImportedSongs(@, userId, library),
            !.themesDb = applyThemes(@, userId, library),
            !.songThemesDb = applySongThemes(@, userId, library),
            !.localPlaylistsDb = applyPlaylists(@, userId, library)]

\* A catch block that throws the cache of the active user away.
syncFromRemoteFailedClearing(s) == markReady(clearLocalDataForUser(s, KeyOf(s.currentUserId)))

\* catch and finally of syncFromRemote after getLibrary rejected: the error
\* is written to the console and the gate is resolved.
syncFromRemoteFailed(s) == markReady(s)

HydrateTask == [NoTask EXCEPT !.op = "hydrate"]

\* The callback subscribed to AuthService.currentUser.
authSubscription(s, user) ==
  IF user # NoUser
  THEN schedule(resetReadyPromise([s EXCEPT !.currentUserId = user,
                                             !.ledger = IF user = s.currentUserId THEN @ ELSE {}], FALSE),
                HydrateTask)
  ELSE LET purged == IF s.currentUserId # NoUser THEN clearLocalDataForUser(s, s.currentUserId) ELSE s IN
       resetReadyPromise([purged EXCEPT !.currentUserId = NoUser], TRUE)

\* A constructor that subscribes to the auth stream whatever the flag says.
ConstructedSubscribing(user) ==
  LET blank == [currentUserId |-> NoUser, readyState |-> "Resolved",
                ratingsDb |-> EmptyMap, themesDb |-> EmptyMap, songThemesDb |-> EmptyMap,
                importedSongsDb |-> EmptyMap, localPlaylistsDb |-> EmptyMap,
                queue |-> <<>>, submitted |-> 0, status |-> <<>>, calls |-> <<>>, opOf |-> <<>>,
                waiter |-> "none", ledger |-> {}]
      subscribed == authSubscription(resetReadyPromise(blank, TRUE), user)
  IN  IF user # NoUser
      THEN schedule(resetReadyPromise([subscribed EXCEPT !.currentUserId = user], FALSE), HydrateTask)
      ELSE subscribed

\* State of a new StorageService when AuthService holds user (or none).
Constructed(user) ==
  LET blank == [currentUserId |-> NoUser, readyState |-> "Resolved",
                ratingsDb |-> EmptyMap, themesDb |-> EmptyMap, songThemesDb |-> EmptyMap,
                importedSongsDb |-> EmptyMap, localPlaylistsDb |-> EmptyMap,
                queue |-> <<>>, submitted |-> 0, status |-> <<>>, calls |-> <<>>, opOf |-> <<>>,
                waiter |-> "none", ledger |-> {}]
      subscribed == authSubscription(resetReadyPromise(blank, TRUE), user)
  IN  IF ~remoteEnabled
      THEN blank
      ELSE IF user # NoUser
      THEN schedule(resetReadyPromise([subscribed EXCEPT !.currentUserId = user], FALSE), HydrateTask)
      ELSE subscribed

\* ------------------------------------------------------------------ reads
getRating(s, userId, songId) ==
  IF Has(s.ratingsDb, userId) /\ Has(s.ratingsDb[userId], songId)
  THEN s.ratingsDb[userId][songId] ELSE [rating |-> NoRating, origin |-> None]

\* The records with min <= rating <= max, as a set.
getRatingsByRange(s, userId, min, max) ==
  {UserTable(s.ratingsDb, userId)[x] :
     x \in {y \in DOMAIN UserTable(s.ratingsDb, userId) :
              s.ratingsDb[userId][y].rating >= min /\ s.ratingsDb[userId][y].rating <= max}}

getAllRatings(s, userId) == {UserTable(s.ratingsDb, userId)[x] : x \in DOMAIN UserTable(s.ratingsDb, userId)}

getThemes(s, userId) == {UserTable(s.themesDb, userId)[x] : x \in DOMAIN UserTable(s.themesDb, userId)}

getTheme(s, userId, themeId) ==
  IF Has(s.themesDb, userId) /\ Has(s.themesDb[userId], themeId) THEN s.themesDb[userId][themeId] ELSE NoTheme

getImportedSongs(s, userId) ==
  {UserTable(s.importedSongsDb, userId)[x] : x \in DOMAIN UserTable(s.importedSongsDb, userId)}

\* A comparator that puts the earlier creation date first.
comparePlaylistsOldestFirst(a, b) ==
  IF a.starred /\ ~b.starred THEN -1
  ELSE IF ~a.starred /\ b.starred THEN 1
  ELSE a.createdAt - b.createdAt

\* The comparator getLocalPlaylists hands to sort: starred playlists first,
\* then the later creation date first.
comparePlaylists(a, b) ==
  IF a.starred /\ ~b.starred THEN -1
  ELSE IF ~a.starred /\ b.starred THEN 1
  ELSE b.createdAt - a.createdAt

\* x is put behind the last element it is not to precede.
RECURSIVE insertSorted(_, _)
insertSorted(sorted, x) ==
  IF sorted # <<>> /\ comparePlaylists(sorted[Len(sorted)], x) > 0
  THEN Append(insertSorted(SubSeq(sorted, 1, Len(sorted) - 1), x), sorted[Len(sorted)])
  ELSE Append(sorted, x)

\* Array.prototype.sort with comparePlaylists (a stable sort).
RECURSIVE sort(_)
sort(playlists) ==
  IF playlists = <<>> THEN <<>>
  ELSE insertSorted(sort(SubSeq(playlists, 1, Len(playlists) - 1)), playlists[Len(playlists)])

\* Object.values of the table of userId, in the order of its keys.
getLocalPlaylists(s, userId) ==
  LET userPlaylists == UserTable(s.localPlaylistsDb, userId) IN
  sort([i \in 1..Cardinality(DOMAIN userPlaylists) |-> userPlaylists[SetToSeq(DOMAIN userPlaylists)[i]]])

getLocalPlaylist(s, userId, playlistId) ==
  IF Has(s.localPlaylistsDb, userId) /\ Has(s.localPlaylistsDb[userId], playlistId)
  THEN s.localPlaylistsDb[userId][playlistId] ELSE NoPlaylist

\* The ids of the songs getLocalPlaylistSongs returns: the songIds of the
\* playlist that are found among the imported songs, in their order.
getLocalPlaylistSongs(s, userId, playlistId) ==
  SelectSeq(getLocalPlaylist(s, userId, playlistId).songIds,
            LAMBDA x : Has(UserTable(s.importedSongsDb, userId), x))

getSongThemes(s, userId, songId) ==
  IF Has(s.songThemesDb, userId) /\ Has(s.songThemesDb[userId], songId)
  THEN s.songThemesDb[userId][songId] ELSE <<>>

\* The song ids getSongsByTheme returns, as a set.
getSongsByTheme(s, userId, themeId) ==
  {x \in DOMAIN UserTable(s.songThemesDb, userId) : Includes(s.songThemesDb[userId][x], themeId)}

getImportedSong(s, userId, songId) ==
  IF Has(s.importedSongsDb, userId) /\ Has(s.importedSongsDb[userId], songId)
  THEN s.importedSongsDb[userId][songId] ELSE [id |-> None, origin |-> None]

\* ---------------------------------------------------------------- ratings
\* A save that keeps the rating a song already has.
saveRatingKeepsFirst(s, userId, songId, rating) ==
  LET old == UserTable(s.ratingsDb, userId)
      s1 == [s EXCEPT !.ratingsDb =
               Put(@, userId, IF Has(old, songId) THEN old ELSE Put(old, songId, [rating |-> rating, origin |-> userId]))]
  IN  IF remoteEnabled /\ isCurrentUser(s, userId)
      THEN enqueueAuthorizedTask(s1,
             [NoTask EXCEPT !.op = "saveRating", !.userId = userId, !.songId = songId, !.rating = rating])
      ELSE s1

saveRating(s, userId, songId, rating) ==
  LET s1 == [s EXCEPT !.ratingsDb =
               Put(@, userId, Put(UserTable(@, userId), songId, [rating |-> rating, origin |-> userId]))]
  IN  IF remoteEnabled /\ isCurrentUser(s, userId)
      THEN enqueueAuthorizedTask(s1,
             [NoTask EXCEPT !.op = "saveRating", !.userId = userId, !.songId = songId, !.rating = rating])
      ELSE s1

\* A delete that is not sent to the server.
deleteRatingLocalOnly(s, userId, songId) ==
  IF Has(s.ratingsDb, userId) /\ Has(s.ratingsDb[userId], songId)
  THEN [s EXCEPT !.ratingsDb[userId] = Drop(@, songId)]
  ELSE s

deleteRating(s, userId, songId) ==
  IF Has(s.ratingsDb, userId) /\ Has(s.ratingsDb[userId], songId)
  THEN LET s1 == [s EXCEPT !.ratingsDb[userId] = Drop(@, songId)] IN
       IF remoteEnabled /\ isCurrentUser(s, userId)
       THEN enqueueAuthorizedTask(s1, [NoTask EXCEPT !.op = "deleteRating", !.userId = userId, !.songId = songId])
       ELSE s1
  ELSE s

clearUserRatings(s, userId) ==
  IF Has(s.ratingsDb, userId)
  THEN LET songIds == DOMAIN s.ratingsDb[userId]
           s1 == [s EXCEPT !.ratingsDb = Drop(@, userId)]
       IN  IF remoteEnabled /\ isCurrentUser(s, userId) /\ songIds # {}
           THEN enqueueAuthorizedTask(s1, [NoTask EXCEPT !.op = "clearRatings", !.userId = userId, !.idSet = songIds])
           ELSE s1
  ELSE s

\* ----------------------------------------------------------------- themes
upsertThemeLocally(s, userId, theme) ==
  [s EXCEPT !.themesDb = Put(@, userId, Put(UserTable(@, userId), theme.id, theme))]

\* A persist that enqueues the save of the theme twice.
persistThemeToRemoteTwice(s, userId, theme) ==
  IF ~remoteEnabled \/ ~isCurrentUser(s, userId)
  THEN s
  ELSE LET task == [NoTask EXCEPT !.op = "saveTheme", !.userId = userId, !.theme = theme] IN
       enqueueAuthorizedTask(enqueueAuthorizedTask(s, task), task)

persistThemeToRemote(s, userId, theme) ==
  IF ~remoteEnabled \/ ~isCurrentUser(s, userId)
  THEN s
  ELSE enqueueAuthorizedTask(s, [NoTask EXCEPT !.op = "saveTheme", !.userId = userId, !.theme = theme])

createTheme(s, userId, name, color, id) ==
  LET theme == [id |-> id, userId |-> userId, name |-> name, color |-> color] IN
  persistThemeToRemote(upsertThemeLocally(s, userId, theme), userId, theme)

updateTheme(s, userId, themeId, name, color) ==
  IF Has(s.themesDb, userId) /\ Has(s.themesDb[userId], themeId)
  THEN LET s1 == [s EXCEPT !.themesDb[userId][themeId].name = name, !.themesDb[userId][themeId].color = color] IN
       persistThemeToRemote(s1, userId, s1.themesDb[userId][themeId])
  ELSE s

\* An assignment that does not look for the theme in the list.
assignThemeToSongUnchecked(s, userId, songId, themeId) ==
  LET old == UserTable(s.songThemesDb, userId)
      list == IF Has(old, songId) THEN old[songId] ELSE <<>>
      s1 == [s EXCEPT !.songThemesDb = Put(@, userId, Put(old, songId, Append(list, themeId)))]
  IN  IF remoteEnabled /\ isCurrentUser(s, userId)
      THEN enqueueAuthorizedTask(s1,
             [NoTask EXCEPT !.op = "assignTheme", !.userId = userId, !.songId = songId, !.themeId = themeId])
      ELSE s1

assignThemeToSong(s, userId, songId, themeId) ==
  LET old == UserTable(s.songThemesDb, userId)
      list == IF Has(old, songId) THEN old[songId] ELSE <<>>
  IN  IF ~Includes(list, themeId)
      THEN LET s1 == [s EXCEPT !.songThemesDb = Put(@, userId, Put(old, songId, Append(list, themeId)))] IN
           IF remoteEnabled /\ isCurrentUser(s, userId)
           THEN enqueueAuthorizedTask(s1,
                  [NoTask EXCEPT !.op = "assignTheme", !.userId = userId, !.songId = songId, !.themeId = themeId])
           ELSE s1
      ELSE [s EXCEPT !.songThemesDb = Put(@, userId, Put(old, songId, list))]

removeThemeFromSong(s, userId, songId, themeId) ==
  IF Has(s.songThemesDb, userId) /\ Has(s.songThemesDb[userId], songId)
  THEN LET s1 == [s EXCEPT !.songThemesDb[userId][songId] = Filter(@, themeId)] IN
       IF remoteEnabled /\ isCurrentUser(s, userId)
       THEN enqueueAuthorizedTask(s1,
              [NoTask EXCEPT !.op = "removeTheme", !.userId = userId, !.songId = songId, !.themeId = themeId])
       ELSE s1
  ELSE s

\* A removal that leaves the lists of the songs as they are.
removeThemeFromAllSongsNever(s, userId, themeId) == s

removeThemeFromAllSongs(s, userId, themeId) ==
  IF Has(s.songThemesDb, userId)
  THEN [s EXCEPT !.songThemesDb[userId] = [x \in DOMAIN @ |-> Filter(@[x], themeId)]]
  ELSE s

deleteTheme(s, userId, themeId) ==
  IF Has(s.themesDb, userId) /\ Has(s.themesDb[userId], themeId)
  THEN LET s1 == [s EXCEPT !.themesDb[userId] = Drop(@, themeId)]
           s2 == IF remoteEnabled /\ isCurrentUser(s, userId)
                 THEN enqueueAuthorizedTask(s1, [NoTask EXCEPT !.op = "deleteTheme", !.userId = userId,
                                                                !.themeId = themeId])
                 ELSE s1
       IN  removeThemeFromAllSongs(s2, userId, themeId)
  ELSE s

\* --------------------------------------------------------- imported songs
saveImportedSongs(s, userId, songs) ==
  LET old == UserTable(s.importedSongsDb, userId)
      s1 == [s EXCEPT !.importedSongsDb =
               Put(@, userId, [x \in (DOMAIN old) \cup songs |->
                                IF x \in songs THEN [id |-> x, origin |-> userId] ELSE old[x]])]
  IN  IF remoteEnabled /\ isCurrentUser(s, userId) /\ songs # {}
      THEN enqueueAuthorizedTask(s1, [NoTask EXCEPT !.op = "saveImportedSongs", !.userId = userId, !.idSet = songs])
      ELSE s1

clearImportedSongs(s, userId) ==
  IF Has(s.importedSongsDb, userId)
  THEN LET songIds == DOMAIN s.importedSongsDb[userId]
           s1 == [s EXCEPT !.importedSongsDb = Drop(@, userId)]
       IN  IF remoteEnabled /\ isCurrentUser(s, userId) /\ songIds # {}
           THEN enqueueAuthorizedTask(s1,
                  [NoTask EXCEPT !.op = "clearImportedSongs", !.userId = userId, !.idSet = songIds])
           ELSE s1
  ELSE s

\* A removal that also takes the song out of the playlists of the user.
removeImportedSongPruning(s, userId, songId) ==
  IF Has(s.importedSongsDb, userId) /\ Has(s.importedSongsDb[userId], songId)
  THEN [s EXCEPT !.importedSongsDb[userId] = Drop(@, songId),
                 !.localPlaylistsDb = [k \in DOMAIN @ |->
                    IF k = userId THEN [p \in DOMAIN @[k] |-> [@[k][p] EXCEPT !.songIds = Filter(@, songId)]]
                    ELSE @[k]]]
  ELSE s

removeImportedSong(s, userId, songId) ==
  IF Has(s.importedSongsDb, userId) /\ Has(s.importedSongsDb[userId], songId)
  THEN LET s1 == [s EXCEPT !.importedSongsDb[userId] = Drop(@, songId)] IN
       IF remoteEnabled /\ isCurrentUser(s, userId)
       THEN enqueueAuthorizedTask(s1,
              [NoTask EXCEPT !.op = "removeImportedSong", !.userId = userId, !.songId = songId])
       ELSE s1
  ELSE s

\* songThemes.forEach(themeId => removeThemeFromSong(userId, songId, themeId))
RECURSIVE removeEachTheme(_, _, _, _)
removeEachTheme(s, userId, songId, songThemes) ==
  IF songThemes = <<>>
  THEN s
  ELSE removeEachTheme(removeThemeFromSong(s, userId, songId, Head(songThemes)), userId, songId, Tail(songThemes))

\* A deleteSong that forgets the rating of the song.
deleteSongKeepsRating(s, userId, songId) ==
  LET s1 == removeImportedSong(s, userId, songId) IN
  removeEachTheme(s1, userId, songId, getSongThemes(s1, userId, songId))

deleteSong(s, userId, songId) ==
  LET s1 == removeImportedSong(s, userId, songId)
      s2 == deleteRating(s1, userId, songId)
  IN  removeEachTheme(s2, userId, songId, getSongThemes(s2, userId, songId))

\* -------------------------------------------------------------- playlists
upsertLocalPlaylist(s, userId, playlist) ==
  [Detach(s, userId, {playlist.id})
     EXCEPT !.localPlaylistsDb = Put(@, userId, Put(UserTable(@, userId), playlist.id, playlist))]

persistPlaylistToRemote(s, userId, playlist) ==
  IF ~remoteEnabled \/ ~isCurrentUser(s, userId)
  THEN s
  ELSE enqueueAuthorizedTask(s, [NoTask EXCEPT !.op = "savePlaylist", !.userId = userId, !.playlist = playlist])

\* new Date() reads the number of events so far.
createLocalPlaylist(s, userId, name, id) ==
  LET playlist == [id |-> id, userId |-> userId, name |-> name, songIds |-> <<>>, starred |-> FALSE,
                   createdAt |-> eventCount]
  IN
  persistPlaylistToRemote(upsertLocalPlaylist(s, userId, playlist), userId, playlist)

\* persistPlaylistToRemote called with the object the table holds.
persistStoredPlaylist(s, userId, playlistId) ==
  LET s1 == persistPlaylistToRemote(s, userId, s.localPlaylistsDb[userId][playlistId]) IN
  IF Len(s1.queue) > Len(s.queue) THEN [s1 EXCEPT !.queue[Len(s1.queue)].live = TRUE] ELSE s1

\* songIds.forEach(songId => { if (!includes(songId)) push(songId) })
RECURSIVE pushEach(_, _)
pushEach(songIds, added) ==
  IF added = <<>>
  THEN songIds
  ELSE pushEach(IF Includes(songIds, Head(added)) THEN songIds ELSE Append(songIds, Head(added)), Tail(added))

addSongToLocalPlaylist(s, userId, playlistId, songId) ==
  IF Has(s.localPlaylistsDb, userId) /\ Has(s.localPlaylistsDb[userId], playlistId)
     /\ ~Includes(s.localPlaylistsDb[userId][playlistId].songIds, songId)
  THEN persistStoredPlaylist([s EXCEPT !.localPlaylistsDb[userId][playlistId].songIds = Append(@, songId)],
                             userId, playlistId)
  ELSE s

addSongsToLocalPlaylist(s, userId, playlistId, songIds) ==
  IF Has(s.localPlaylistsDb, userId) /\ Has(s.localPlaylistsDb[userId], playlistId)
  THEN persistStoredPlaylist([s EXCEPT !.localPlaylistsDb[userId][playlistId].songIds = pushEach(@, songIds)],
                             userId, playlistId)
  ELSE s

updateLocalPlaylist(s, userId, playlistId, updates) ==
  IF Has(s.localPlaylistsDb, userId) /\ Has(s.localPlaylistsDb[userId], playlistId)
  THEN LET updated == [s.localPlaylistsDb[userId][playlistId] EXCEPT !.name = updates.name] IN
       persistPlaylistToRemote(upsertLocalPlaylist(s, userId, updated), userId, updated)
  ELSE s

deleteLocalPlaylist(s, userId, playlistId) ==
  IF Has(s.localPlaylistsDb, userId) /\ Has(s.localPlaylistsDb[userId], playlistId)
  THEN LET s1 == [Detach(s, userId, {playlistId}) EXCEPT !.localPlaylistsDb[userId] = Drop(@, playlistId)] IN
       IF remoteEnabled /\ isCurrentUser(s, userId)
       THEN enqueueAuthorizedTask(s1, [NoTask EXCEPT !.op = "deletePlaylist", !.userId = userId,
                                                      !.playlistId = playlistId])
       ELSE s1
  ELSE s

removeSongFromLocalPlaylist(s, userId, playlistId, songId) ==
  IF Has(s.localPlaylistsDb, userId) /\ Has(s.localPlaylistsDb[userId], playlistId)
  THEN persistStoredPlaylist([s EXCEPT !.localPlaylistsDb[userId][playlistId].songIds = Filter(@, songId)],
                             userId, playlistId)
  ELSE s

togglePlaylistStarred(s, userId, playlistId) ==
  IF Has(s.localPlaylistsDb, userId) /\ Has(s.localPlaylistsDb[userId], playlistId)
  THEN persistStoredPlaylist([s EXCEPT !.localPlaylistsDb[userId][playlistId].starred = ~@], userId, playlistId)
  ELSE s

clearLocalPlaylists(s, userId) ==
  IF Has(s.localPlaylistsDb, userId)
  THEN LET playlistIds == DOMAIN s.localPlaylistsDb[userId]
           s1 == [Detach(s, userId, playlistIds) EXCEPT !.localPlaylistsDb = Drop(@, userId)]
       IN  IF remoteEnabled /\ isCurrentUser(s, userId) /\ playlistIds # {}
           THEN enqueueAuthorizedTask(s1,
                  [NoTask EXCEPT !.op = "clearPlaylists", !.userId = userId, !.idSet = playlistIds])
           ELSE s1
  ELSE s

\* ------------------------------------------------------------- queue tasks
\* The ApiService requests a task issues once it holds the token tok.
CallsOf(t, tok) ==
  LET one(op, songId, playlistId) ==
        [task |-> t.id, taskOp |-> t.op, op |-> op, token |-> tok, userId |-> t.userId, songId |-> songId,
         rating |-> t.rating, themeId |-> t.themeId, playlistId |-> playlistId, idSet |-> t.idSet,
         theme |-> t.theme, playlist |-> t.playlist]
  IN  CASE t.op = "clearRatings" -> {one("deleteRating", x, None) : x \in t.idSet}
        [] t.op = "clearImportedSongs" -> {one("removeImportedSong", x, None) : x \in t.idSet}
        [] t.op = "clearPlaylists" -> {one("deletePlaylist", None, x) : x \in t.idSet}
        [] t.op = "hydrate" -> {one("getLibrary", None, None)}
        [] OTHER -> {one(t.op, t.songId, t.playlistId)}

\* A task that is started without waiting for the link before it.
ChainReadyAtOnce == TRUE

\* The promise a link was chained to by .then has settled.
ChainReady == running = Idle

\* Microtasks (the start of the next link) run before any other event.
MicrotaskPending == ChainReady /\ queue # <<>>

\* A task that calls the operation whatever getAccessToken returned.
SkipsNever(tok) == FALSE

\* if (!token) return;
Skips(tok) == tok = None

\* A handler that schedules the failed task again.
catchHandlerRetry(s, t) == [s EXCEPT !.queue = Append(@, t)]

\* The handler of task().catch: the error is written to the console.
catchHandler(s, t) == s

\* The task t goes on after getAccessToken returned tok (None for null).
Proceed(s, t, tok) ==
  IF Skips(tok) \/ (t.op = "hydrate" /\ s.currentUserId = NoUser)
  THEN /\ Commit([(IF t.op = "hydrate" THEN markReady(s) ELSE s) EXCEPT !.status[t.id] = "noop"])
       /\ running' = Idle
       /\ chain' = CatchRejection("fulfilled")
       /\ UNCHANGED <<inflight, lastCallTask>>
  ELSE /\ Commit([s EXCEPT !.status[t.id] = "running", !.calls[t.id] = Cardinality(CallsOf(Deref(s, t), tok))])
       /\ running' = [task |-> Deref(s, t), phase |-> "remote", refreshOwner |-> None]
       /\ inflight' = inflight \cup CallsOf(Deref(s, t), tok)
       /\ lastCallTask' = t.id
       /\ UNCHANGED chain

\* The head link starts: the task runs up to its first HTTP request.
TaskStart ==
  /\ ChainReady /\ queue # <<>>
  /\ LET t == Head(queue)
         s == [Self EXCEPT !.queue = Tail(queue)]
     IN  IF chain = "rejected"
         THEN /\ Commit([s EXCEPT !.status[t.id] = "skipped"])
              /\ UNCHANGED <<running, inflight, lastCallTask, chain>>
              /\ UNCHANGED <<authUser, tokenOwner, tokenFresh, hasRefresh>>
         ELSE IF authUser # NoUser /\ ~tokenFresh /\ hasRefresh
         THEN /\ Commit([s EXCEPT !.status[t.id] = "running"])
              /\ running' = [task |-> t, phase |-> "token", refreshOwner |-> tokenOwner]
              /\ UNCHANGED <<inflight, lastCallTask, chain>>
              /\ UNCHANGED <<authUser, tokenOwner, tokenFresh, hasRefresh>>
         ELSE /\ Proceed(s, t, IF authUser = NoUser \/ ~tokenFresh THEN None ELSE tokenOwner)
              /\ UNCHANGED <<authUser, tokenOwner, tokenFresh, hasRefresh>>
  /\ UNCHANGED <<remoteEnabled, frontend, remote, ids, budget>>

\* The token endpoint answers the refresh request of the running task with
\* new tokens: updateUserTokens stores them in whoever is the current user and
\* emits that user again.
RefreshResolve ==
  /\ running.phase = "token"
  /\ ~MicrotaskPending
  /\ LET t == running.task
         emitted == IF authUser # NoUser /\ remoteEnabled THEN authSubscription(Self, authUser) ELSE Self
         owner == IF authUser # NoUser THEN running.refreshOwner ELSE tokenOwner
     IN  /\ tokenOwner' = owner
         /\ tokenFresh' = (authUser # NoUser)
         /\ hasRefresh' = (authUser # NoUser)
         /\ Proceed(emitted, t, IF authUser = NoUser THEN None ELSE owner)
  /\ UNCHANGED <<remoteEnabled, frontend, authUser, remote, ids, budget>>

\* The refresh request fails: refreshAccessToken calls logout and the task
\* is left without a token.
RefreshReject ==
  /\ running.phase = "token"
  /\ ~MicrotaskPending
  /\ authUser' = NoUser
  /\ tokenOwner' = NoUser
  /\ tokenFresh' = FALSE
  /\ hasRefresh' = FALSE
  /\ Proceed(IF remoteEnabled THEN authSubscription(Self, NoUser) ELSE Self, running.task, None)
  /\ UNCHANGED <<remoteEnabled, frontend, remote, ids, budget>>

\* What the running task does after its request c was answered.
Continuation(s, t, c, library) ==
  CASE t.op = "hydrate" -> markReady(hydrateCache(s, KeyOf(s.currentUserId), library))
    [] t.op = "saveTheme" -> upsertThemeLocally(s, t.userId, SavedTheme(c))
    [] t.op = "savePlaylist" -> upsertLocalPlaylist(s, t.userId, SavedPlaylist(c))
    [] OTHER -> s

\* The request c is carried out and answered; library is the body of the
\* answer to a getLibrary request.
Answered(c, library) ==
  /\ c \in inflight
  /\ ~MicrotaskPending
  /\ ~ServerRejects(c)
  /\ remote' = ApplyRemote(remote, c)
  /\ inflight' = inflight \ {c}
  /\ IF running.phase = "remote" /\ running.task.id = c.task /\ ~\E x \in inflight \ {c} : x.task = c.task
     THEN /\ Commit([Continuation(Self, running.task, c, library) EXCEPT !.status[c.task] = "ok"])
          /\ running' = Idle
          /\ chain' = CatchRejection("fulfilled")
     ELSE UNCHANGED <<currentUserId, readyState, tables, queue, submitted, status, calls, opOf, running, chain, waiter, ledger>>
  /\ UNCHANGED <<remoteEnabled, frontend, authUser, tokenOwner, tokenFresh, hasRefresh, ids, lastCallTask, budget>>

\* The server carries out the request c and answers it.
RemoteResolve(c) ==
  /\ c \in inflight
  /\ Answered(c, Library(remote, c.token))

\* The library request c is answered with a payload whose songThemes are the
\* given links, as a server without the unique key on (user_id, song_id,
\* theme_id) could send them.
RemoteResolveWith(c, songThemes) ==
  /\ c.op = "getLibrary"
  /\ Answered(c, [Library(remote, c.token) EXCEPT !.songThemes = songThemes])

\* The request c fails (network error or an error answer of the server).
RemoteReject(c) ==
  /\ c \in inflight
  /\ ~MicrotaskPending
  /\ inflight' = inflight \ {c}
  /\ IF running.phase = "remote" /\ running.task.id = c.task
     THEN /\ Commit([catchHandler(IF running.task.op = "hydrate" THEN syncFromRemoteFailed(Self) ELSE Self, running.task)
                       EXCEPT !.status[c.task] = "failed"])
          /\ running' = Idle
          /\ chain' = CatchRejection("rejected")
     ELSE UNCHANGED <<currentUserId, readyState, tables, queue, submitted, status, calls, opOf, running, chain, waiter, ledger>>
  /\ UNCHANGED <<remoteEnabled, frontend, authUser, tokenOwner, tokenFresh, hasRefresh, remote, ids, lastCallTask, budget>>

\* ------------------------------------------------------------ auth stream
\* The auth stream emits user u with new tokens (OAuth callback, mock login).
Login(u) ==
  /\ ~MicrotaskPending
  /\ eventCount < MaxEvents
  /\ eventCount' = eventCount + 1
  /\ authUser' = u
  /\ tokenOwner' = u
  /\ tokenFresh' = TRUE
  /\ hasRefresh' = TRUE
  /\ Commit(IF remoteEnabled THEN authSubscription(Self, u) ELSE Self)
  /\ UNCHANGED <<remoteEnabled, frontend, remote, ids, running, inflight, chain, lastCallTask>>

\* AuthService.logout called by a component.
Logout ==
  /\ ~MicrotaskPending
  /\ authUser # NoUser
  /\ eventCount < MaxEvents
  /\ eventCount' = eventCount + 1
  /\ authUser' = NoUser
  /\ tokenOwner' = NoUser
  /\ tokenFresh' = FALSE
  /\ hasRefresh' = FALSE
  /\ Commit(IF remoteEnabled THEN authSubscription(Self, NoUser) ELSE Self)
  /\ UNCHANGED <<remoteEnabled, frontend, remote, ids, running, inflight, chain, lastCallTask>>

\* Time passes until the access token is within five minutes of its expiry.
TokenExpires ==
  /\ ~MicrotaskPending
  /\ authUser # NoUser /\ tokenFresh
  /\ eventCount < MaxEvents
  /\ eventCount' = eventCount + 1
  /\ tokenFresh' = FALSE
  /\ UNCHANGED <<remoteEnabled, frontend, authUser, tokenOwner, hasRefresh, currentUserId, readyState, tables, remote, ids,
                 queue, running, inflight, chain, ghost, waiter, ledger>>

\* --------------------------------------------------- calls of a component
\* A component calls a public method that changes neither the auth state nor
\* the requests in flight.
Call(s) ==
  /\ ~MicrotaskPending
  /\ eventCount < MaxEvents
  /\ eventCount' = eventCount + 1
  /\ Commit(s)
  /\ UNCHANGED <<remoteEnabled, frontend, authUser, tokenOwner, tokenFresh, hasRefresh, remote, running, inflight, chain,
                 lastCallTask>>

SaveRating(u, songId, r) == Call(saveRating(Self, u, songId, r)) /\ UNCHANGED ids

DeleteRating(u, songId) == Call(deleteRating(Self, u, songId)) /\ UNCHANGED ids

ClearUserRatings(u) == Call(clearUserRatings(Self, u)) /\ UNCHANGED ids

CreateTheme(u, name, color) ==
  /\ freshThemeIds # {}
  /\ LET id == CHOOSE x \in freshThemeIds : TRUE IN
     /\ Call(createTheme(Revoke(Self, u, id), u, name, color, id))
     /\ freshThemeIds' = freshThemeIds \ {id}
  /\ UNCHANGED freshPlaylistIds

AssignThemeToSong(u, songId, themeId) == Call(assignThemeToSong(Self, u, songId, themeId)) /\ UNCHANGED ids

SaveImportedSongs(u, songs) == Call(saveImportedSongs(Self, u, songs)) /\ UNCHANGED ids

ClearImportedSongs(u) == Call(clearImportedSongs(Self, u)) /\ UNCHANGED ids

CreateLocalPlaylist(u, name) ==
  /\ freshPlaylistIds # {}
  /\ LET id == CHOOSE x \in freshPlaylistIds : TRUE IN
     /\ Call(createLocalPlaylist(Revoke(Self, u, id), u, name, id))
     /\ freshPlaylistIds' = freshPlaylistIds \ {id}
  /\ UNCHANGED freshThemeIds

ClearLocalPlaylists(u) ==
  /\ Call(clearLocalPlaylists([Self EXCEPT !.ledger = {x \in @ : ~(x.userId = u /\ x.kind = "song")}], u))
  /\ UNCHANGED ids

DeleteTheme(u, themeId) ==
  /\ Call(Noting(deleteTheme(Self, u, themeId),
                 IF getTheme(Self, u, themeId) # NoTheme THEN {Deleted("theme", u, themeId)} ELSE {}))
  /\ UNCHANGED ids

DeleteSong(u, songId) == Call(deleteSong(Self, u, songId)) /\ UNCHANGED ids

AddSongToLocalPlaylist(u, playlistId, songId) ==
  /\ Call(Noting(addSongToLocalPlaylist(Self, u, playlistId, songId),
                 IF isCurrentUser(Self, u) /\ getLocalPlaylist(Self, u, playlistId) # NoPlaylist
                 THEN {Added(u, playlistId, songId)} ELSE {}))
  /\ UNCHANGED ids

AddSongsToLocalPlaylist(u, playlistId, songIds) ==
  /\ Call(Noting(addSongsToLocalPlaylist(Self, u, playlistId, songIds),
                 IF isCurrentUser(Self, u) /\ getLocalPlaylist(Self, u, playlistId) # NoPlaylist
                 THEN {Added(u, playlistId, songIds[i]) : i \in 1..Len(songIds)} ELSE {}))
  /\ UNCHANGED ids

UpdateTheme(u, themeId, name, color) == Call(updateTheme(Self, u, themeId, name, color)) /\ UNCHANGED ids

RemoveThemeFromSong(u, songId, themeId) == Call(removeThemeFromSong(Self, u, songId, themeId)) /\ UNCHANGED ids

RemoveImportedSong(u, songId) == Call(removeImportedSong(Self, u, songId)) /\ UNCHANGED ids

UpdateLocalPlaylist(u, playlistId, name) ==
  Call(updateLocalPlaylist(Revoke(Self, u, playlistId), u, playlistId, [name |-> name])) /\ UNCHANGED ids

DeleteLocalPlaylist(u, playlistId) ==
  /\ Call(Noting(deleteLocalPlaylist(Revoke(Self, u, playlistId), u, playlistId),
                 IF getLocalPlaylist(Self, u, playlistId) # NoPlaylist
                 THEN {Deleted("playlist", u, playlistId)} ELSE {}))
  /\ UNCHANGED ids

RemoveSongFromLocalPlaylist(u, playlistId, songId) ==
  Call(removeSongFromLocalPlaylist(Revoke(Self, u, playlistId), u, playlistId, songId)) /\ UNCHANGED ids

TogglePlaylistStarred(u, playlistId) ==
  Call(togglePlaylistStarred(Revoke(Self, u, playlistId), u, playlistId)) /\ UNCHANGED ids

\* ------------------------------------------------------------------ waiters
\* A component calls waitUntilReady: it goes on at once when readyPromise is
\* resolved and otherwise awaits the promise the service holds now.
WaitUntilReady ==
  /\ ~MicrotaskPending
  /\ waiter = "none"
  /\ waiter' = IF readyState = "Resolved" THEN "returned" ELSE "current"
  /\ UNCHANGED <<remoteEnabled, session, tables, remote, ids, queue, running, inflight, chain, ghost, budget, ledger,
                 frontend>>

\* ------------------------------------------------------------- read calls
\* A read that fetches the library again.
ReadFetching(result) ==
  /\ ~MicrotaskPending
  /\ eventCount < MaxEvents
  /\ eventCount' = eventCount + 1
  /\ returned' = result
  /\ Commit(schedule(Self, HydrateTask))
  /\ UNCHANGED <<remoteEnabled, authUser, tokenOwner, tokenFresh, hasRefresh, remote, ids, running, inflight, chain,
                 lastCallTask, player, app>>

\* A component calls a read method: no field of the service is assigned.
Read(result) ==
  /\ ~MicrotaskPending
  /\ eventCount < MaxEvents
  /\ eventCount' = eventCount + 1
  /\ returned' = result
  /\ Commit(Self)
  /\ UNCHANGED <<remoteEnabled, authUser, tokenOwner, tokenFresh, hasRefresh, remote, ids, running, inflight, chain,
                 lastCallTask, player, app>>

GetRating(u, songId) ==
  Read([op |-> "getRating", args |-> <<u, songId>>, value |-> getRating(Self, u, songId)])

GetAllRatings(u) == Read([op |-> "getAllRatings", args |-> <<u>>, value |-> getAllRatings(Self, u)])

GetRatingsByRange(u, min, max) ==
  Read([op |-> "getRatingsByRange", args |-> <<u>>, value |-> getRatingsByRange(Self, u, min, max)])

GetThemes(u) == Read([op |-> "getThemes", args |-> <<u>>, value |-> getThemes(Self, u)])

GetTheme(u, themeId) == Read([op |-> "getTheme", args |-> <<u, themeId>>, value |-> getTheme(Self, u, themeId)])

GetSongThemes(u, songId) ==
  Read([op |-> "getSongThemes", args |-> <<u, songId>>, value |-> getSongThemes(Self, u, songId)])

GetSongsByTheme(u, themeId) ==
  Read([op |-> "getSongsByTheme", args |-> <<u, themeId>>, value |-> getSongsByTheme(Self, u, themeId)])

GetImportedSongs(u) == Read([op |-> "getImportedSongs", args |-> <<u>>, value |-> getImportedSongs(Self, u)])

GetImportedSong(u, songId) ==
  Read([op |-> "getImportedSong", args |-> <<u, songId>>, value |-> getImportedSong(Self, u, songId)])

GetLocalPlaylists(u) == Read([op |-> "getLocalPlaylists", args |-> <<u>>, value |-> getLocalPlaylists(Self, u)])

GetLocalPlaylist(u, playlistId) ==
  Read([op |-> "getLocalPlaylist", args |-> <<u, playlistId>>, value |-> getLocalPlaylist(Self, u, playlistId)])

GetLocalPlaylistSongs(u, playlistId) ==
  Read([op |-> "getLocalPlaylistSongs", args |-> <<u, playlistId>>,
        value |-> getLocalPlaylistSongs(Self, u, playlistId)])

\* ----------------------------------------------------------------- player
\* The songs a list view hands to playSong: song i is the i-th of the list.
MaxQueue == 3

Availability == {"available", "unavailable"}

SongLists ==
  UNION {[1..n -> [id : 1..MaxQueue, videoAvailabilityStatus : Availability]] : n \in 1..MaxQueue}

\* The lists of a view: the i-th song has the id i.
Views == {list \in SongLists : \A i \in 1..Len(list) : list[i].id = i}

\* queue[index] for an index counted from 0.
At(state, index) == state.queue[index + 1]

Available(song) == song.videoAvailabilityStatus # "unavailable"

\* The indices the loop of playNext visits, from currentIndex + 1 upwards,
\* whose song it does not skip.
CandidatesAfter(state, index) == {i \in (index + 1)..(Len(state.queue) - 1) : Available(At(state, i))}

\* The indices the loop of playPrevious visits, from currentIndex - 1 down to
\* 0, whose song it does not skip.
CandidatesBefore(state, index) == {i \in 0..(index - 1) : Available(At(state, i))}

Min(S) == CHOOSE x \in S : \A y \in S : x <= y

Max(S) == CHOOSE x \in S : \A y \in S : x >= y

\* stateSubject.next({...state, currentIndex: index, currentSong: candidate});
\* return candidate
Select(state, index) ==
  [state |-> [state EXCEPT !.currentIndex = index, !.currentSong = At(state, index)], song |-> At(state, index)]

\* return null
Null(state) == [state |-> state, song |-> NoSong]

\* allSongs.findIndex(s => s.id === song.id)
findIndex(allSongs, song) ==
  IF \E i \in 1..Len(allSongs) : allSongs[i].id = song.id
  THEN Min({i \in 1..Len(allSongs) : allSongs[i].id = song.id}) - 1
  ELSE -1

playSong(state, song, allSongs) ==
  [state EXCEPT !.queue = allSongs,
                !.currentIndex = findIndex(allSongs, song),
                !.currentSong = song,
                !.miniPlayerVisible = TRUE]

\* A playNext that takes the song behind the current one whatever its status.
playNextUnchecked(state) ==
  IF state.currentIndex + 1 < Len(state.queue) THEN Select(state, state.currentIndex + 1) ELSE Null(state)

\* The state playNext leaves and the song it returns.
playNext(state) ==
  IF CandidatesAfter(state, state.currentIndex) # {}
  THEN Select(state, Min(CandidatesAfter(state, state.currentIndex)))
  ELSE Null(state)

playPrevious(state) ==
  IF CandidatesBefore(state, state.currentIndex) # {}
  THEN Select(state, Max(CandidatesBefore(state, state.currentIndex)))
  ELSE Null(state)

playFromQueue(state, index) ==
  IF index >= 0 /\ index < Len(state.queue)
  THEN IF Available(At(state, index)) THEN Select(state, index)
       ELSE IF CandidatesAfter(state, index) # {} THEN Select(state, Min(CandidatesAfter(state, index)))
       ELSE IF CandidatesBefore(state, index) # {} THEN Select(state, Max(CandidatesBefore(state, index)))
       ELSE Null(state)
  ELSE Null(state)

\* MusicPlayerService.closePlayer
closePlayer(state) == initialState

\* loadVideoInPlayer up to the onReady event of the YouTube player: the
\* player the component has loads the video, or a new player is made.
loadVideoInPlayer(a) == [a EXCEPT !.ytPlayer = "player", !.playerReady = TRUE, !.isPlaying = TRUE]

\* The subscriber of state$ in App.
handlePlayerStateChange(a, state) ==
  LET songChanged == state.currentSong \notin {NoSong, Undefined} /\ state.currentSong.id # a.playingSongId
      a1 == [a EXCEPT !.playingSongId = state.currentSong.id, !.miniPlayerVisible = state.miniPlayerVisible]
  IN  IF songChanged THEN loadVideoInPlayer(a1) ELSE a1

\* finalizePlayerClose, with the emission of the player service it causes.
finalizePlayerClose(a) ==
  [handlePlayerStateChange(a, initialState)
     EXCEPT !.closeCalls = @ + 1,
            !.destroyCalls = IF a.ytPlayer # "null" THEN @ + 1 ELSE @,
            !.ytPlayer = "null",
            !.isPlaying = FALSE,
            !.playerReady = FALSE,
            !.showQueue = FALSE]

\* A step of the player: the service emits state, App ends up as a and the
\* method of the service that was called returned result.
PlayerReturn(state, a, result) ==
  /\ player' = state
  /\ app' = a
  /\ returned' = result
  /\ UNCHANGED <<remoteEnabled, session, tables, remote, ids, queue, running, inflight, chain, ghost, waiter, ledger>>

\* A step of the player whose method returns nothing.
PlayerStep(state, a) == PlayerReturn(state, a, returned)

\* A click in the player or in a list view.
PlayerEvent(state, a) ==
  /\ eventCount < MaxEvents
  /\ eventCount' = eventCount + 1
  /\ PlayerStep(state, a)

\* playNextSong, playPreviousSong and playFromQueue of App: the service
\* emits when it found a song, and App then loads the video of that song.
NavigateWithin(limit, op, found) ==
  /\ eventCount < limit
  /\ eventCount' = eventCount + 1
  /\ PlayerReturn(found.state,
                  IF found.song # NoSong THEN loadVideoInPlayer(handlePlayerStateChange(app, found.state)) ELSE app,
                  [op |-> op, args |-> <<>>, value |-> found.song])

Navigate(op, found) == NavigateWithin(MaxEvents, op, found)

PlaySong(song, allSongs) ==
  PlayerEvent(playSong(player, song, allSongs), handlePlayerStateChange(app, playSong(player, song, allSongs)))

PlayNext == Navigate("playNext", playNext(player))

PlayPrevious == Navigate("playPrevious", playPrevious(player))

PlayFromQueue(index) == Navigate("playFromQueue", playFromQueue(player, index))

ToggleQueue == PlayerEvent(player, [app EXCEPT !.showQueue = ~@])

\* A dialog that is taken to have been confirmed as soon as it is shown.
ClosePlayerUnasked(skipConfirm) ==
  /\ ~app.confirming
  /\ PlayerEvent(closePlayer(player), finalizePlayerClose(app))

\* App.closePlayer up to its await, or to its end when skipConfirm is set.
ClosePlayer(skipConfirm) ==
  /\ ~app.confirming
  /\ IF skipConfirm
     THEN PlayerEvent(closePlayer(player), finalizePlayerClose(app))
     ELSE PlayerEvent(player, [app EXCEPT !.confirming = TRUE, !.asked = @ + 1])

\* A closePlayer that goes on to the teardown whatever the dialog answered.
SendResultAlwaysCloses(confirmed) ==
  /\ app.confirming
  /\ UNCHANGED budget
  /\ PlayerStep(closePlayer(player), finalizePlayerClose([app EXCEPT !.confirming = FALSE]))

\* ModalService.sendResult: the user answers the dialog and closePlayer goes
\* on behind its await.
SendResult(confirmed) ==
  /\ app.confirming
  /\ UNCHANGED budget
  /\ IF confirmed
     THEN PlayerStep(closePlayer(player), finalizePlayerClose([app EXCEPT !.confirming = FALSE]))
     ELSE PlayerStep(player, [app EXCEPT !.confirming = FALSE])

\* ---------------------------------------------------------- specification
\* The state after construction; shelf is the playlists table of user "A"
\* that earlier calls of this session left (empty: no table yet).
InitFrom(enabled, user, shelf) ==
  /\ remoteEnabled = enabled
  /\ authUser = user
  /\ tokenOwner = user
  /\ tokenFresh = (user # NoUser)
  /\ hasRefresh = (user # NoUser)
  /\ currentUserId = Constructed(user).currentUserId
  /\ readyState = Constructed(user).readyState
  /\ ratingsDb = EmptyMap
  /\ themesDb = EmptyMap
  /\ songThemesDb = EmptyMap
  /\ importedSongsDb = EmptyMap
  /\ localPlaylistsDb = IF DOMAIN shelf = {} THEN EmptyMap ELSE [k \in {"A"} |-> shelf]
  /\ remote = SeedRemote
  /\ freshThemeIds = ThemeIds \ DOMAIN SeedRemote.themes
  /\ freshPlaylistIds = PlaylistIds \ (DOMAIN SeedRemote.playlists \cup DOMAIN shelf)
  /\ queue = Constructed(user).queue
  /\ submitted = Constructed(user).submitted
  /\ status = Constructed(user).status
  /\ calls = Constructed(user).calls
  /\ opOf = Constructed(user).opOf
  /\ running = Idle
  /\ inflight = {}
  /\ chain = "fulfilled"
  /\ lastCallTask = 0
  /\ eventCount = 0
  /\ waiter = "none"
  /\ ledger = {}
  /\ returned = NoResult
  /\ player = initialState
  /\ app = NewApp

InitWith(enabled, user) == InitFrom(enabled, user, EmptyMap)

Init == \E user \in Users \cup {NoUser} : InitWith(TRUE, user)

Next ==
  \/ TaskStart
  \/ RefreshResolve
  \/ RefreshReject
  \/ \E c \in inflight : RemoteResolve(c)
  \/ \E c \in inflight : RemoteReject(c)
  \/ \E u \in Users : Login(u)
  \/ Logout
  \/ TokenExpires
  \/ \E u \in Users, songId \in Songs, r \in QueueRatings : SaveRating(u, songId, r)
  \/ \E u \in Users, songId \in Songs : DeleteRating(u, songId)
  \/ \E u \in Users : ClearUserRatings(u)
  \/ \E u \in Users, songId \in Songs, themeId \in ThemeIds : AssignThemeToSong(u, songId, themeId)
  \/ \E u \in Users, songs \in ImportBatches : SaveImportedSongs(u, songs)
  \/ \E u \in Users : ClearImportedSongs(u)
  \/ \E u \in Users : ClearLocalPlaylists(u)
  \/ \E u \in Users, name \in Names, color \in Colors : CreateTheme(u, name, color)
  \/ \E u \in Users, name \in Names : CreateLocalPlaylist(u, name)

Spec == Init /\ [][Next]_vars

\* Every pending HTTP request (token refresh or ApiService call) is answered.
Settle ==
  \/ RefreshResolve
  \/ RefreshReject
  \/ \E c \in inflight : RemoteResolve(c)
  \/ \E c \in inflight : RemoteReject(c)

\* Sessions and rating calls only, with every pending request answered and
\* every microtask run.
NextLive ==
  \/ TaskStart
  \/ RefreshResolve
  \/ RefreshReject
  \/ \E c \in inflight : RemoteResolve(c)
  \/ \E c \in inflight : RemoteReject(c)
  \/ \E u \in Users : Login(u)
  \/ Logout
  \/ TokenExpires
  \/ \E u \in Users, songId \in Songs, r \in QueueRatings : SaveRating(u, songId, r)
  \/ \E u \in Users : ClearUserRatings(u)

FairSpec == Init /\ [][NextLive]_vars /\ WF_vars(TaskStart) /\ WF_vars(Settle)

\* Rating calls with every rating a component can pass, in and out of range.
RatingInputs == {MinRating - 1, MinRating, 5, MaxRating, MaxRating + 1}

NextRating ==
  \/ TaskStart
  \/ RefreshResolve
  \/ RefreshReject
  \/ \E c \in inflight : RemoteResolve(c)
  \/ \E c \in inflight : RemoteReject(c)
  \/ \E u \in Users : Login(u)
  \/ Logout
  \/ TokenExpires
  \/ \E u \in Users, songId \in Songs, r \in RatingInputs : SaveRating(u, songId, r)

SpecRating == Init /\ [][NextRating]_vars

\* Sessions with theme assignments and the deletes that cascade.
NextCascade ==
  \/ TaskStart
  \/ RefreshResolve
  \/ RefreshReject
  \/ \E c \in inflight : RemoteResolve(c)
  \/ \E c \in inflight : RemoteReject(c)
  \/ \E u \in Users : Login(u)
  \/ Logout
  \/ TokenExpires
  \/ \E u \in Users, songId \in Songs, themeId \in ThemeIds : AssignThemeToSong(u, songId, themeId)
  \/ \E u \in Users, themeId \in ThemeIds : DeleteTheme(u, themeId)
  \/ \E u \in Users, songId \in Songs : DeleteSong(u, songId)

SpecCascade == Init /\ [][NextCascade]_vars

\* Sessions in which playlists are created and songs are added to them; the
\* access token stays fresh, so a task calls ApiService as soon as it starts.
NextPlaylist ==
  \/ TaskStart
  \/ \E c \in inflight : RemoteResolve(c)
  \/ \E c \in inflight : RemoteReject(c)
  \/ \E u \in Users : Login(u)
  \/ Logout
  \/ \E u \in Users, name \in Names : CreateLocalPlaylist(u, name)
  \/ \E u \in Users, playlistId \in PlaylistIds, songId \in Songs : AddSongToLocalPlaylist(u, playlistId, songId)
  \/ \E u \in Users, playlistId \in PlaylistIds, songIds \in AddBatches :
       AddSongsToLocalPlaylist(u, playlistId, songIds)
  \/ \E u \in Users, songId \in Songs : DeleteSong(u, songId)
  \/ \E u \in Users, songId \in Songs : RemoveImportedSong(u, songId)
  \/ \E u \in Users, playlistId \in PlaylistIds : GetLocalPlaylistSongs(u, playlistId)

SpecPlaylist == Init /\ [][NextPlaylist]_vars

\* Creation dates of the playlists an earlier part of the session made.
Times == 0..MaxEvents

\* The playlists tables of user "A" such a part can leave.
Shelves ==
  UNION {[ps -> [id : PlaylistIds, userId : {"A"}, name : Names, songIds : {<<>>}, starred : BOOLEAN,
                 createdAt : Times]] : ps \in SUBSET PlaylistIds}

InitShelf == \E shelf \in {x \in Shelves : \A p \in DOMAIN x : x[p].id = p} : InitFrom(FALSE, "A", shelf)

\* The playlists page of a local-only installation.
NextShelf ==
  \/ \E u \in Users : GetLocalPlaylists(u)
  \/ \E u \in Users, playlistId \in PlaylistIds : TogglePlaylistStarred(u, playlistId)
  \/ \E u \in Users, name \in Names : CreateLocalPlaylist(u, name)

SpecShelf == InitShelf /\ [][NextShelf]_vars

RatingRanges == {<<MinRating, 5>>, <<5, MaxRating>>}

\* A component calls one of the read methods.
ReadCall ==
  \/ \E u \in Users, songId \in Songs : GetRating(u, songId)
  \/ \E u \in Users : GetAllRatings(u)
  \/ \E u \in Users, range \in RatingRanges : GetRatingsByRange(u, range[1], range[2])
  \/ \E u \in Users : GetThemes(u)
  \/ \E u \in Users, themeId \in ThemeIds : GetTheme(u, themeId)
  \/ \E u \in Users, songId \in Songs : GetSongThemes(u, songId)
  \/ \E u \in Users, themeId \in ThemeIds : GetSongsByTheme(u, themeId)
  \/ \E u \in Users : GetImportedSongs(u)
  \/ \E u \in Users, songId \in Songs : GetImportedSong(u, songId)
  \/ \E u \in Users : GetLocalPlaylists(u)
  \/ \E u \in Users, playlistId \in PlaylistIds : GetLocalPlaylist(u, playlistId)
  \/ \E u \in Users, playlistId \in PlaylistIds : GetLocalPlaylistSongs(u, playlistId)

\* Sessions in which components only read.
NextReads ==
  \/ TaskStart
  \/ \E c \in inflight : RemoteResolve(c)
  \/ \E c \in inflight : RemoteReject(c)
  \/ \E u \in Users : Login(u)
  \/ Logout
  \/ \E u \in Users, songId \in Songs : GetRating(u, songId)
  \/ \E u \in Users : GetAllRatings(u)
  \/ \E u \in Users, range \in RatingRanges : GetRatingsByRange(u, range[1], range[2])
  \/ \E u \in Users : GetThemes(u)
  \/ \E u \in Users, themeId \in ThemeIds : GetTheme(u, themeId)
  \/ \E u \in Users, songId \in Songs : GetSongThemes(u, songId)
  \/ \E u \in Users, themeId \in ThemeIds : GetSongsByTheme(u, themeId)
  \/ \E u \in Users : GetImportedSongs(u)
  \/ \E u \in Users, songId \in Songs : GetImportedSong(u, songId)
  \/ \E u \in Users : GetLocalPlaylists(u)
  \/ \E u \in Users, playlistId \in PlaylistIds : GetLocalPlaylist(u, playlistId)
  \/ \E u \in Users, playlistId \in PlaylistIds : GetLocalPlaylistSongs(u, playlistId)

SpecReads == Init /\ [][NextReads]_vars

\* The songThemes of the payloads a library request can be answered with.
Payloads == UNION {[1..n -> {"s1"} \X ThemeIds] : n \in 0..2}

\* Sessions with assignments and removals of themes, cascading deletes and
\* hydrations from the server's rows or from any payload.
NextLinks ==
  \/ TaskStart
  \/ \E c \in inflight : RemoteResolve(c)
  \/ \E c \in inflight, songThemes \in Payloads : RemoteResolveWith(c, songThemes)
  \/ \E u \in Users : Login(u)
  \/ Logout
  \/ \E u \in Users, songId \in Songs, themeId \in ThemeIds : AssignThemeToSong(u, songId, themeId)
  \/ \E u \in Users, songId \in Songs, themeId \in ThemeIds : RemoveThemeFromSong(u, songId, themeId)
  \/ \E u \in Users, themeId \in ThemeIds : DeleteTheme(u, themeId)
  \/ \E u \in Users, songId \in Songs : DeleteSong(u, songId)

SpecLinks == Init /\ [][NextLinks]_vars

\* The session of a stored user with the mutations that do not cascade,
\* called for that user, and every request answered.
NextMutations ==
  \/ TaskStart
  \/ \E c \in inflight : RemoteResolve(c)
  \/ \E u \in Users \cap {authUser}, songId \in Songs, r \in QueueRatings : SaveRating(u, songId, r)
  \/ \E u \in Users \cap {authUser}, songId \in Songs : DeleteRating(u, songId)
  \/ \E u \in Users \cap {authUser}, name \in Names, color \in Colors : CreateTheme(u, name, color)
  \/ \E u \in Users \cap {authUser}, themeId \in ThemeIds, name \in NewNames, color \in Colors : UpdateTheme(u, themeId, name, color)
  \/ \E u \in Users \cap {authUser}, themeId \in ThemeIds : DeleteTheme(u, themeId)
  \/ \E u \in Users \cap {authUser}, songId \in Songs, themeId \in ThemeIds : AssignThemeToSong(u, songId, themeId)
  \/ \E u \in Users \cap {authUser}, songId \in Songs, themeId \in ThemeIds : RemoveThemeFromSong(u, songId, themeId)
  \/ \E u \in Users \cap {authUser}, songs \in ImportBatches : SaveImportedSongs(u, songs)
  \/ \E u \in Users \cap {authUser}, songId \in Songs : RemoveImportedSong(u, songId)
  \/ \E u \in Users \cap {authUser}, name \in Names : CreateLocalPlaylist(u, name)
  \/ \E u \in Users \cap {authUser}, playlistId \in PlaylistIds, name \in NewNames : UpdateLocalPlaylist(u, playlistId, name)
  \/ \E u \in Users \cap {authUser}, playlistId \in PlaylistIds : DeleteLocalPlaylist(u, playlistId)
  \/ \E u \in Users \cap {authUser}, playlistId \in PlaylistIds, songId \in Songs : AddSongToLocalPlaylist(u, playlistId, songId)
  \/ \E u \in Users \cap {authUser}, playlistId \in PlaylistIds, songIds \in AddBatches :
       AddSongsToLocalPlaylist(u, playlistId, songIds)
  \/ \E u \in Users \cap {authUser}, playlistId \in PlaylistIds, songId \in Songs :
       RemoveSongFromLocalPlaylist(u, playlistId, songId)
  \/ \E u \in Users \cap {authUser}, playlistId \in PlaylistIds : TogglePlaylistStarred(u, playlistId)

SpecMutations == Init /\ [][NextMutations]_vars

\* Synchronization switched off (environment.remoteStorageEnabled false): the
\* auth stream goes on emitting, components call the service and wait on it.
InitLocal == \E user \in Users \cup {NoUser} : InitWith(FALSE, user)

NextLocal ==
  \/ \E u \in Users : Login(u)
  \/ Logout
  \/ TokenExpires
  \/ WaitUntilReady
  \/ \E u \in Users, songId \in Songs, r \in QueueRatings : SaveRating(u, songId, r)
  \/ \E u \in Users, songId \in Songs : DeleteRating(u, songId)
  \/ \E u \in Users, name \in Names, color \in Colors : CreateTheme(u, name, color)
  \/ \E u \in Users, songId \in Songs, themeId \in ThemeIds : AssignThemeToSong(u, songId, themeId)
  \/ \E u \in Users, songs \in ImportBatches : SaveImportedSongs(u, songs)
  \/ \E u \in Users, songId \in Songs : DeleteSong(u, songId)
  \/ \E u \in Users, name \in Names : CreateLocalPlaylist(u, name)
  \/ \E u \in Users : ClearLocalPlaylists(u)

SpecLocal == InitLocal /\ [][NextLocal]_vars

\* The player: list views start playback, the user moves through the queue,
\* opens and closes the queue panel, closes the player and answers its dialog.
QueueIndices == -1..MaxQueue

NextPlayer ==
  \/ \E allSongs \in Views, i \in 1..MaxQueue : i <= Len(allSongs) /\ PlaySong(allSongs[i], allSongs)
  \/ PlayNext
  \/ PlayPrevious
  \/ \E index \in QueueIndices : PlayFromQueue(index)
  \/ ToggleQueue
  \/ \E skipConfirm \in BOOLEAN : ClosePlayer(skipConfirm)
  \/ \E confirmed \in BOOLEAN : SendResult(confirmed)

SpecPlayer == Init /\ [][NextPlayer]_vars

\* -------------------------------------------------------- edits of the queue
\* The calls of the queue panel and of the list views that one run follows.
MaxEdits == 4

\* The songs a list view hands to addToQueue and addToPlayNext.
QueueSongs == [id : 1..MaxQueue, videoAvailabilityStatus : Availability]

\* The position Array.prototype.splice and slice take for an argument.
relativeIndex(length, index) == IF index < 0 THEN Max({length + index, 0}) ELSE Min({index, length})

\* array[index] for an index counted from 0.
elementAt(array, index) == IF index >= 0 /\ index < Len(array) THEN array[index + 1] ELSE Undefined

\* The array after array.splice(index, 1).
spliceOut(array, index) ==
  LET start == relativeIndex(Len(array), index)
  IN  SubSeq(array, 1, start) \o SubSeq(array, start + 2, Len(array))

\* The array after array.splice(index, 0, song).
spliceIn(array, index, song) ==
  LET start == relativeIndex(Len(array), index)
  IN  SubSeq(array, 1, start) \o <<song>> \o SubSeq(array, start + 1, Len(array))

removeFromQueue(state, index) ==
  LET newQueue == spliceOut(state.queue, index)
      newIndex == IF index < state.currentIndex THEN state.currentIndex - 1
                  ELSE IF index = state.currentIndex /\ state.currentIndex >= Len(newQueue)
                       THEN Max({0, Len(newQueue) - 1})
                  ELSE state.currentIndex
  IN  [state EXCEPT !.queue = newQueue,
                    !.currentIndex = newIndex,
                    !.currentSong = IF Len(newQueue) > 0 THEN elementAt(newQueue, newIndex) ELSE NoSong]

\* A reorderQueue that leaves currentIndex where it was.
reorderQueueStale(state, fromIndex, toIndex) ==
  LET movedSong == elementAt(state.queue, relativeIndex(Len(state.queue), fromIndex))
      newQueue == spliceIn(spliceOut(state.queue, fromIndex), toIndex, movedSong)
  IN  [state EXCEPT !.queue = newQueue, !.currentSong = elementAt(newQueue, state.currentIndex)]

reorderQueue(state, fromIndex, toIndex) ==
  LET movedSong == elementAt(state.queue, relativeIndex(Len(state.queue), fromIndex))
      newQueue == spliceIn(spliceOut(state.queue, fromIndex), toIndex, movedSong)
      newIndex == IF fromIndex = state.currentIndex THEN toIndex
                  ELSE IF fromIndex < state.currentIndex /\ toIndex >= state.currentIndex
                       THEN state.currentIndex - 1
                  ELSE IF fromIndex > state.currentIndex /\ toIndex <= state.currentIndex
                       THEN state.currentIndex + 1
                  ELSE state.currentIndex
  IN  [state EXCEPT !.queue = newQueue,
                    !.currentIndex = newIndex,
                    !.currentSong = elementAt(newQueue, newIndex)]

cutoffQueueAt(state, index) ==
  LET newQueue == SubSeq(state.queue, 1, relativeIndex(Len(state.queue), index + 1))
      newIndex == IF state.currentIndex > index THEN index ELSE state.currentIndex
  IN  [state EXCEPT !.queue = newQueue,
                    !.currentIndex = newIndex,
                    !.currentSong = elementAt(newQueue, newIndex)]

addToQueue(state, song) == [state EXCEPT !.queue = Append(@, song)]

addToPlayNext(state, song) == [state EXCEPT !.queue = spliceIn(@, state.currentIndex + 1, song)]

\* What a method of the player service that returns nothing leaves behind.
Called(op, args) == [op |-> op, args |-> args, value |-> <<>>]

\* The service emits state and its subscriber in App runs.
QueueEdit(state, result) ==
  /\ eventCount < MaxEdits
  /\ eventCount' = eventCount + 1
  /\ PlayerReturn(state, handlePlayerStateChange(app, state), result)

\* The method returned before it emitted.
QueueKept(result) ==
  /\ eventCount < MaxEdits
  /\ eventCount' = eventCount + 1
  /\ PlayerReturn(player, app, result)

RemoveFromQueue(index) == QueueEdit(removeFromQueue(player, index), Called("removeFromQueue", <<index>>))

ReorderQueue(fromIndex, toIndex) ==
  QueueEdit(reorderQueue(player, fromIndex, toIndex), Called("reorderQueue", <<fromIndex, toIndex>>))

CutoffQueueAt(index) == QueueEdit(cutoffQueueAt(player, index), Called("cutoffQueueAt", <<index>>))

AddToQueue(song) ==
  IF Available(song)
  THEN QueueEdit(addToQueue(player, song), Called("addToQueue", <<song.id>>))
  ELSE QueueKept(Called("addToQueue", <<song.id>>))

AddToPlayNext(song) ==
  IF Available(song)
  THEN QueueEdit(addToPlayNext(player, song), Called("addToPlayNext", <<song.id>>))
  ELSE QueueKept(Called("addToPlayNext", <<song.id>>))

\* index is a position of the queue.
InRange(index) == index >= 0 /\ index < Len(player.queue)

\* A list view starts playback; the user then walks through the queue, adds
\* songs to it while it is shorter than MaxQueue, and removes, moves and cuts
\* at positions of the queue.
NextQueue ==
  \/ \E allSongs \in Views, i \in 1..MaxQueue : i <= Len(allSongs) /\ PlaySong(allSongs[i], allSongs)
  \/ NavigateWithin(MaxEdits, "playNext", playNext(player))
  \/ NavigateWithin(MaxEdits, "playPrevious", playPrevious(player))
  \/ \E index \in QueueIndices : InRange(index) /\ NavigateWithin(MaxEdits, "playFromQueue", playFromQueue(player, index))
  \/ \E song \in QueueSongs : Len(player.queue) < MaxQueue /\ AddToQueue(song)
  \/ \E song \in QueueSongs : Len(player.queue) < MaxQueue /\ AddToPlayNext(song)
  \/ \E index \in QueueIndices : InRange(index) /\ RemoveFromQueue(index)
  \/ \E fromIndex, toIndex \in QueueIndices : InRange(fromIndex) /\ InRange(toIndex) /\ ReorderQueue(fromIndex, toIndex)
  \/ \E index \in QueueIndices : InRange(index) /\ CutoffQueueAt(index)

\* Nobody is signed in and nothing is stored: the player does not look at
\* the session.
InitQueue == InitWith(FALSE, NoUser)

SpecQueue == InitQueue /\ [][NextQueue]_vars

\* Sessions come and go while a component waits for the gate; every pending
\* request is answered and every microtask run.
NextWait ==
  \/ TaskStart
  \/ RefreshResolve
  \/ RefreshReject
  \/ \E c \in inflight : RemoteResolve(c)
  \/ \E c \in inflight : RemoteReject(c)
  \/ \E u \in Users : Login(u)
  \/ Logout
  \/ TokenExpires
  \/ WaitUntilReady

FairWait == Init /\ [][NextWait]_vars /\ WF_vars(TaskStart) /\ WF_vars(Settle)

\* A component calls one of the mutating methods with the user id u.
Mutation(u) ==
  \/ \E songId \in Songs, r \in QueueRatings : SaveRating(u, songId, r)
  \/ \E songId \in Songs : DeleteRating(u, songId)
  \/ ClearUserRatings(u)
  \/ \E name \in Names, color \in Colors : CreateTheme(u, name, color)
  \/ \E themeId \in ThemeIds, name \in NewNames, color \in Colors : UpdateTheme(u, themeId, name, color)
  \/ \E themeId \in ThemeIds : DeleteTheme(u, themeId)
  \/ \E songId \in Songs, themeId \in ThemeIds : AssignThemeToSong(u, songId, themeId)
  \/ \E songId \in Songs, themeId \in ThemeIds : RemoveThemeFromSong(u, songId, themeId)
  \/ \E songs \in ImportBatches : SaveImportedSongs(u, songs)
  \/ \E songId \in Songs : RemoveImportedSong(u, songId)
  \/ ClearImportedSongs(u)
  \/ \E songId \in Songs : DeleteSong(u, songId)
  \/ \E name \in Names : CreateLocalPlaylist(u, name)
  \/ \E playlistId \in PlaylistIds, name \in NewNames : UpdateLocalPlaylist(u, playlistId, name)
  \/ \E playlistId \in PlaylistIds : DeleteLocalPlaylist(u, playlistId)
  \/ \E playlistId \in PlaylistIds, songId \in Songs : AddSongToLocalPlaylist(u, playlistId, songId)
  \/ \E playlistId \in PlaylistIds, songIds \in AddBatches : AddSongsToLocalPlaylist(u, playlistId, songIds)
  \/ \E playlistId \in PlaylistIds, songId \in Songs : RemoveSongFromLocalPlaylist(u, playlistId, songId)
  \/ \E playlistId \in PlaylistIds : TogglePlaylistStarred(u, playlistId)
  \/ ClearLocalPlaylists(u)

\* Mutating calls made with the id of a user who is not the active one, while
\* the tasks of the active user run.
NextForeign ==
  \/ TaskStart
  \/ \E c \in inflight : RemoteResolve(c)
  \/ \E u \in Users \ {currentUserId} : Mutation(u)

SpecForeign == Init /\ [][NextForeign]_vars

\* ================================================================= claims
Settled == {"ok", "failed", "noop"}

\* None of the five tables of s has an entry for the key k.
Purged(s, k) ==
  /\ ~Has(s.ratingsDb, k) /\ ~Has(s.themesDb, k) /\ ~Has(s.songThemesDb, k)
  /\ ~Has(s.importedSongsDb, k) /\ ~Has(s.localPlaylistsDb, k)

LocalRating(u, songId) == getRating(Self, u, songId).rating

RemoteRating(u, songId) == IF Has(remote.userSongs, <<u, songId>>) THEN remote.userSongs[<<u, songId>>] ELSE NoRating

\* C1: tasks handed to schedule run in submission order and one at a time: a
\* task has started only if every task submitted before it has settled, and
\* the one unsettled task is the running one, whatever the tasks are.
C1_SubmissionOrder ==
  /\ \A i, j \in 1..submitted : (i < j /\ status[j] # "queued") => status[i] \in Settled
  /\ \A i \in 1..submitted : status[i] = "running" <=> running.task.id = i

\* A theme save is awaiting its answer while a rating save waits behind it.
C1_Witness ==
  /\ running.phase = "remote" /\ running.task.op = "saveTheme"
  /\ queue # <<>> /\ Head(queue).op = "saveRating"
  /\ status[Head(queue).id] = "queued"

C3_FailureIsolation ==
  /\ chain = "fulfilled"
  /\ \A i \in 1..submitted : status[i] # "skipped"

\* A task of another entity type succeeded after a task was rejected.
C3_Witness ==
  \E i, j \in 1..submitted : i < j /\ status[i] = "failed" /\ status[j] = "ok" /\ opOf[i] # opOf[j]

NoCredential(i) == opOf[i] # "hydrate" /\ status[i] \in {"queued", "running"} /\ status'[i] = "noop"

C6_QueueDrains ==
  <>[](/\ queue = <<>> /\ running = Idle
       /\ \A i \in 1..submitted : status[i] \in Settled)

\* The queue is idle after a rating save that was enqueued before a logout
\* ran without a credential.
C6_Witness ==
  /\ queue = <<>> /\ running = Idle /\ inflight = {} /\ authUser = NoUser
  /\ \E i \in 1..submitted : opOf[i] = "saveRating" /\ status[i] = "noop"
  /\ \A i \in 1..submitted : status[i] \in Settled

\* C7: getRating called right after saveRating(u, s, r) with r in 1..10
\* returns r, in every state of the queue and of the session.
C7_ReadYourWrites ==
  [][\A u \in Users, songId \in Songs, r \in MinRating..MaxRating :
       SaveRating(u, songId, r) => getRating(Self', u, songId).rating = r]_vars

\* A rating of 10 is readable while its remote save waits behind a running task.
C7_Witness ==
  /\ running.phase = "remote"
  /\ queue # <<>> /\ Head(queue).op = "saveRating" /\ Head(queue).rating = MaxRating
  /\ status[Head(queue).id] = "queued"
  /\ LocalRating(Head(queue).userId, Head(queue).songId) = MaxRating

\* C8: saveRating with a rating outside 1..10 is rejected before any local
\* mutation or enqueue: the ratings table and the queue stay as they were.
C8_RejectsOutOfRange ==
  [][\A u \in Users, songId \in Songs, r \in RatingInputs \ (MinRating..MaxRating) :
       SaveRating(u, songId, r) => (ratingsDb' = ratingsDb /\ queue' = queue)]_vars

\* C9: when the auth stream goes from an active user u to no user, all five
\* tables have no entry for u, getAllRatings(u) is empty, the active userId is
\* cleared and the gate is resolved.
C9_PurgeOnLogout ==
  [][(authUser # NoUser /\ authUser' = NoUser) =>
       /\ Purged(Self', authUser)
       /\ getAllRatings(Self', authUser) = {}
       /\ currentUserId' = NoUser
       /\ readyState' = "Resolved"]_vars

\* After a hydration had filled the tables the user logged out and the store
\* holds nothing.
C9_Witness ==
  /\ authUser = NoUser /\ currentUserId = NoUser /\ readyState = "Resolved"
  /\ \E i \in 1..submitted : opOf[i] = "hydrate" /\ status[i] = "ok"
  /\ \A k \in Keys : Purged(Self, k)

\* C10: no read for a user returns a record that came from the hydration
\* payload of another user.
C10_NoForeignRecords ==
  \A u \in Users :
    /\ \A x \in getAllRatings(Self, u) : x.origin = u
    /\ \A x \in getImportedSongs(Self, u) : x.origin = u
    /\ \A x \in getThemes(Self, u) : x.userId = u
    /\ \A x \in SeqToSet(getLocalPlaylists(Self, u)) : x.userId = u

\* C11: when the active user changes from A straight to another user B, the
\* five tables of A are purged.
C11_PurgeOnSwitch ==
  [][(currentUserId \in Users /\ currentUserId' \in Users /\ currentUserId' # currentUserId) =>
       Purged(Self', currentUserId)]_vars

\* The task with id i is a hydration.
IsHydrate(i) == opOf[i] = "hydrate"

\* C12: with no session at construction the gate is Resolved; every emission
\* of a user by the auth stream (a login, or the re-emission after a token
\* refresh) leaves a Pending gate and the hydration task as the newest link
\* of the queue; every transition to no user leaves the gate Resolved.
C12_GateTransitions ==
  /\ (authUser = NoUser => readyState = "Resolved")
  /\ [][/\ \A u \in Users :
             Login(u) => /\ readyState' = "Pending"
                         /\ queue' = Append(queue, [HydrateTask EXCEPT !.id = submitted + 1])
        /\ (RefreshResolve /\ authUser # NoUser) =>
             /\ readyState' = "Pending"
             /\ queue' = Append(queue, [HydrateTask EXCEPT !.id = submitted + 1])
        /\ (authUser # NoUser /\ authUser' = NoUser) => readyState' = "Resolved"]_vars

\* A login found the gate of a hydrated session and left it Pending, with its
\* hydration task waiting in the queue.
C12_Witness ==
  /\ readyState = "Pending" /\ authUser \in Users
  /\ \E i \in 1..submitted : IsHydrate(i) /\ status[i] = "ok"
  /\ \A i \in 1..submitted : status[i] \notin {"running", "failed", "noop"}
  /\ IsHydrate(submitted) /\ status[submitted] = "queued"

\* C13: when every pending request is answered, the gate of the service
\* (readyPromise, left Pending by a login) is eventually Resolved, and the step
\* in which a hydration task completes (fetched, rejected or skipped for lack
\* of a credential) leaves it Resolved.  (The gate is Pending or Resolved, so
\* "Pending leads to Resolved" is "again and again Resolved".)
C13_GateResolves ==
  /\ [][\A i \in 1..submitted :
          (IsHydrate(i) /\ status[i] \in {"queued", "running"} /\ status'[i] \in Settled) =>
            readyState' = "Resolved"]_vars
  /\ []<>(readyState = "Resolved")

\* The hydration of a session failed and was the last task: the gate is
\* Resolved.
C13_Witness ==
  /\ authUser \in Users /\ readyState = "Resolved"
  /\ submitted > 0 /\ IsHydrate(submitted) /\ status[submitted] = "failed"

\* C14: while a session of user u is active the gate is resolved only by a
\* hydration attempt made for u: the library request whose completion resolves
\* it carried the token of u.
C14_GateMeansHydrated ==
  [][(readyState = "Pending" /\ readyState' = "Resolved" /\ currentUserId' \in Users) =>
       /\ running.task.op = "hydrate"
       /\ \A c \in inflight : c.task = running.task.id => c.token = currentUserId']_vars

\* C15: right after a hydration task has applied the library it fetched, each
\* of the five tables of the user it was applied for holds exactly the records
\* of the payload, and nothing that was there before and is not in the payload.
C15_SnapshotReplaces ==
  [][\A c \in inflight :
       (c.taskOp = "hydrate" /\ RemoteResolve(c)) =>
         LET k == KeyOf(currentUserId)
             library == Library(remote, c.token)
             links == SeqToSet(library.songThemes)
         IN  /\ DOMAIN ratingsDb'[k] = DOMAIN library.ratings
             /\ \A x \in DOMAIN library.ratings : ratingsDb'[k][x].rating = library.ratings[x]
             /\ DOMAIN importedSongsDb'[k] = library.songs
             /\ themesDb'[k] = library.themes
             /\ DOMAIN songThemesDb'[k] = {l[1] : l \in links}
             /\ \A x \in DOMAIN songThemesDb'[k] :
                  /\ SeqToSet(songThemesDb'[k][x]) = {l[2] : l \in {y \in links : y[1] = x}}
                  /\ Len(songThemesDb'[k][x]) = Cardinality(SeqToSet(songThemesDb'[k][x]))
             /\ localPlaylistsDb'[k] = library.playlists]_vars

\* A theme created locally is gone from the table after a hydration whose
\* payload did not have it, while its remote save still waits in the queue.
C15_Witness ==
  /\ \E i \in 1..submitted : IsHydrate(i) /\ status[i] = "ok"
  /\ \E i \in 1..Len(queue) :
       /\ queue[i].op = "saveTheme" /\ queue[i].userId = currentUserId
       /\ Has(themesDb, currentUserId)
       /\ ~Has(themesDb[currentUserId], queue[i].theme.id)

\* C16: when the library fetch of a hydration task rejects, the step that
\* handles the rejection changes none of the five tables, resolves the gate,
\* leaves the chain fulfilled and the waiting tasks in the queue.
C16_HydrationFailure ==
  [][\A i \in 1..submitted :
       (IsHydrate(i) /\ status[i] = "running" /\ status'[i] = "failed") =>
         /\ UNCHANGED tables
         /\ readyState' = "Resolved"
         /\ chain' = "fulfilled"
         /\ queue' = queue]_vars

\* A hydration failed after an earlier one had filled the tables; the cache
\* is still there and a later task has run.
C16_Witness ==
  /\ \E i, j, k \in 1..submitted :
       /\ i < j /\ j < k
       /\ IsHydrate(i) /\ status[i] = "ok"
       /\ IsHydrate(j) /\ status[j] = "failed"
       /\ status[k] = "ok"
  /\ currentUserId \in Users /\ getTheme(Self, currentUserId, "t1") # NoTheme

\* C19: createTheme(u, name, color) stores, and getTheme and getThemes at
\* once return, a record with that name and color under a non-empty new id;
\* no task is started by the call, and when u is the active user exactly one
\* theme-save task for that record is appended to the queue.
C19_CreateTheme ==
  [][\A u \in Users, name \in Names, color \in Colors :
       CreateTheme(u, name, color) =>
         \E id \in freshThemeIds :
           LET theme == [id |-> id, userId |-> u, name |-> name, color |-> color] IN
           /\ id # ""
           /\ getTheme(Self, u, id) = NoTheme
           /\ getTheme(Self', u, id) = theme
           /\ theme \in getThemes(Self', u)
           /\ running' = running /\ inflight' = inflight
           /\ isCurrentUser(Self, u) =>
                /\ Len(queue') = Len(queue) + 1
                /\ \A i \in 1..Len(queue) : queue'[i] = queue[i]
                /\ queue'[Len(queue')].op = "saveTheme"
                /\ queue'[Len(queue')].theme = theme
                /\ status'[queue'[Len(queue')].id] = "queued"]_vars

\* The new theme is readable while its save waits behind a running task.
C19_Witness ==
  /\ running.phase = "remote"
  /\ \E i \in 1..Len(queue) :
       /\ queue[i].op = "saveTheme" /\ status[queue[i].id] = "queued"
       /\ getTheme(Self, queue[i].userId, queue[i].theme.id) = queue[i].theme
       /\ queue[i].theme.name \in Names /\ queue[i].theme.color \in Colors

\* The remote deletes deleteSong(u, songId) has to enqueue, one per record it
\* removes: the song, its rating, each of its theme links.
CascadeOps(u, songId) ==
  (IF getImportedSong(Self, u, songId).id # None THEN <<[op |-> "removeImportedSong", themeId |-> None]>> ELSE <<>>)
  \o (IF getRating(Self, u, songId).rating # NoRating THEN <<[op |-> "deleteRating", themeId |-> None]>> ELSE <<>>)
  \o [i \in 1..Len(getSongThemes(Self, u, songId)) |->
        [op |-> "removeTheme", themeId |-> getSongThemes(Self, u, songId)[i]]]

\* The step appended exactly the tasks ops, in that order, all for songId,
\* and started none of them.
Appended(u, songId, ops) ==
  /\ Len(queue') = Len(queue) + Len(ops)
  /\ \A i \in 1..Len(queue) : queue'[i] = queue[i]
  /\ \A i \in 1..Len(ops) :
       LET t == queue'[Len(queue) + i] IN
       /\ t.op = ops[i].op /\ t.themeId = ops[i].themeId
       /\ t.userId = u /\ t.songId = songId
       /\ status'[t.id] = "queued"
  /\ running' = running /\ inflight' = inflight

\* The song, its rating and its theme links are gone from the tables of u.
CascadedLocally(s, u, songId) ==
  /\ getImportedSong(s, u, songId).id = None
  /\ getRating(s, u, songId).rating = NoRating
  /\ getSongThemes(s, u, songId) = <<>>

\* C17 as stated: deleteSong(u, s) removes the three kinds of record from the
\* tables of u and appends one remote delete per removed record, for every u.
C17_CascadeEnqueuesAll ==
  [][\A u \in Users, songId \in Songs :
       DeleteSong(u, songId) =>
         /\ CascadedLocally(Self', u, songId)
         /\ Appended(u, songId, CascadeOps(u, songId))]_vars

\* C17 amended: the records are removed from the tables of u in the call; when
\* u is the active user one remote delete per removed record is appended in
\* the order song, rating, links and none is started; for any other u nothing
\* is appended.
C17_CascadeWhenActive ==
  [][\A u \in Users, songId \in Songs :
       DeleteSong(u, songId) =>
         /\ CascadedLocally(Self', u, songId)
         /\ Appended(u, songId, IF remoteEnabled /\ isCurrentUser(Self, u) THEN CascadeOps(u, songId) ELSE <<>>)]_vars

\* The three deletes of a song that had a rating and a theme wait in the
\* queue, in order, and the song is gone locally.
C17_Witness ==
  /\ Len(queue) >= 3
  /\ LET n == Len(queue) IN
     /\ queue[n - 2].op = "removeImportedSong"
     /\ queue[n - 1].op = "deleteRating"
     /\ queue[n].op = "removeTheme"
     /\ queue[n - 1].songId = queue[n].songId /\ queue[n - 2].songId = queue[n].songId
     /\ queue[n].userId = currentUserId
     /\ CascadedLocally(Self, currentUserId, queue[n].songId)

\* C18: deleteTheme(u, t) on a theme u has removes t from the theme table of u
\* and from the list of every song of u in the same call.
C18_DeleteThemeCascades ==
  [][\A u \in Users, themeId \in ThemeIds :
       (DeleteTheme(u, themeId) /\ getTheme(Self, u, themeId) # NoTheme) =>
         /\ getTheme(Self', u, themeId) = NoTheme
         /\ getSongsByTheme(Self', u, themeId) = {}
         /\ \A x \in Songs : ~Includes(getSongThemes(Self', u, x), themeId)]_vars

\* A theme that was assigned to a song has been deleted: it is in neither
\* table while its remote delete waits in the queue.
C18_Witness ==
  \E i \in 1..Len(queue) :
    /\ queue[i].op = "deleteTheme" /\ status[queue[i].id] = "queued"
    /\ getTheme(Self, queue[i].userId, queue[i].themeId) = NoTheme
    /\ getSongsByTheme(Self, queue[i].userId, queue[i].themeId) = {}
    /\ \E x \in Songs : /\ Has(UserTable(songThemesDb, queue[i].userId), x)
                        /\ songThemesDb[queue[i].userId][x] = <<>>

\* The step replaces or drops tables as a whole: a hydration is applied or
\* the user is logged out.
ReplacesTables ==
  \/ running.task.op = "hydrate" /\ running' = Idle
  \/ authUser # NoUser /\ authUser' = NoUser

\* C20: an add appends, in the order of its arguments, exactly the song ids
\* the playlist does not have yet; what was added is still at the front of
\* the list when the next add comes (so that [a,b,c] followed by [b,d] gives
\* [a,b,c,d]); songIds never has a duplicate and getLocalPlaylistSongs
\* returns the songs in the order of songIds.
C20_AppendsInOrder ==
  /\ [](\A u \in Users, p \in PlaylistIds :
          LET songIds == getLocalPlaylist(Self, u, p).songIds IN
          /\ Cardinality(SeqToSet(songIds)) = Len(songIds)
          /\ getLocalPlaylistSongs(Self, u, p) =
               SelectSeq(songIds, LAMBDA x : getImportedSong(Self, u, x).id # None))
  /\ [][\A u \in Users, p \in PlaylistIds :
          LET before == getLocalPlaylist(Self, u, p)
              after == getLocalPlaylist(Self', u, p)
          IN  /\ \A songId \in Songs :
                   (before # NoPlaylist /\ AddSongToLocalPlaylist(u, p, songId)) =>
                     after.songIds = pushEach(before.songIds, <<songId>>)
              /\ \A songIds \in AddBatches :
                   (before # NoPlaylist /\ AddSongsToLocalPlaylist(u, p, songIds)) =>
                     /\ after.songIds = pushEach(before.songIds, songIds)
                     /\ pushEach(after.songIds, songIds) = after.songIds
              /\ (before # NoPlaylist /\ after # NoPlaylist /\ ~ReplacesTables) =>
                   /\ Len(before.songIds) <= Len(after.songIds)
                   /\ \A i \in 1..Len(before.songIds) : after.songIds[i] = before.songIds[i]]_vars


\* The playlists of q are in the order getLocalPlaylists promises.
StarredFirstNewestFirst(q) ==
  \A i, j \in 1..Len(q) :
    i < j => /\ (q[j].starred => q[i].starred)
             /\ (q[i].starred = q[j].starred => q[i].createdAt >= q[j].createdAt)

\* q lists every record of the table once and nothing else.
PermutationOf(q, table) ==
  /\ Len(q) = Cardinality(DOMAIN table)
  /\ \A p \in DOMAIN table : \E i \in 1..Len(q) : q[i] = table[p]

C22_ReadsChangeNothing ==
  [][ReadCall => UNCHANGED <<tables, queue, submitted, currentUserId, readyState, waiter, inflight, calls, remote>>]_vars

\* A read was made while the hydration of the session had not completed.
C22_Witness == returned.op # None /\ readyState = "Pending" /\ queue = <<>> /\ inflight # {}

\* The step appended n tasks to the queue, none of which has started.
Appends(n) ==
  /\ submitted' = submitted + n
  /\ Len(queue') = Len(queue) + n
  /\ \A i \in (submitted + 1)..submitted' : status'[i] = "queued"

\* What is asked of a step that is the call fired.  addressed: the record the
\* call is about exists (for an assignment or an addition of one song: and
\* does not have the element yet); stamps: the call writes a new date into a
\* record.  By record, one task is expected exactly when addressed holds; by
\* change, exactly when the call stamps a record or leaves the tables
\* different from what they were.
Judged(fired, addressed, stamps, byRecord) ==
  fired => /\ Appends(IF (IF byRecord THEN addressed ELSE stamps \/ tables' # tables) THEN 1 ELSE 0)
           /\ ~addressed => UNCHANGED tables

MutationsJudged(u, byRecord) ==
  /\ \A songId \in Songs, r \in QueueRatings : Judged(SaveRating(u, songId, r), TRUE, TRUE, byRecord)
  /\ \A songId \in Songs :
       Judged(DeleteRating(u, songId), getRating(Self, u, songId).rating # NoRating, FALSE, byRecord)
  /\ \A name \in Names, color \in Colors : Judged(CreateTheme(u, name, color), TRUE, TRUE, byRecord)
  /\ \A themeId \in ThemeIds, name \in NewNames, color \in Colors :
       Judged(UpdateTheme(u, themeId, name, color), getTheme(Self, u, themeId) # NoTheme, FALSE, byRecord)
  /\ \A themeId \in ThemeIds : Judged(DeleteTheme(u, themeId), getTheme(Self, u, themeId) # NoTheme, FALSE, byRecord)
  /\ \A songId \in Songs, themeId \in ThemeIds :
       /\ Judged(AssignThemeToSong(u, songId, themeId), ~Includes(getSongThemes(Self, u, songId), themeId),
                 FALSE, byRecord)
       /\ Judged(RemoveThemeFromSong(u, songId, themeId), Has(UserTable(songThemesDb, u), songId), FALSE, byRecord)
  /\ \A songs \in ImportBatches : Judged(SaveImportedSongs(u, songs), TRUE, TRUE, byRecord)
  /\ \A songId \in Songs :
       Judged(RemoveImportedSong(u, songId), getImportedSong(Self, u, songId).id # None, FALSE, byRecord)
  /\ \A name \in Names : Judged(CreateLocalPlaylist(u, name), TRUE, TRUE, byRecord)
  /\ \A playlistId \in PlaylistIds :
       LET exists == getLocalPlaylist(Self, u, playlistId) # NoPlaylist IN
       /\ \A name \in NewNames : Judged(UpdateLocalPlaylist(u, playlistId, name), exists, exists, byRecord)
       /\ Judged(DeleteLocalPlaylist(u, playlistId), exists, FALSE, byRecord)
       /\ Judged(TogglePlaylistStarred(u, playlistId), exists, exists, byRecord)
       /\ \A songIds \in AddBatches : Judged(AddSongsToLocalPlaylist(u, playlistId, songIds), exists, exists, byRecord)
       /\ \A songId \in Songs :
            LET has == Includes(getLocalPlaylist(Self, u, playlistId).songIds, songId) IN
            /\ Judged(AddSongToLocalPlaylist(u, playlistId, songId), exists /\ ~has, exists /\ ~has, byRecord)
            /\ Judged(RemoveSongFromLocalPlaylist(u, playlistId, songId), exists, exists, byRecord)

Resolving(u, songIds) == {i \in 1..Len(songIds) : getImportedSong(Self, u, songIds[i]).id # None}

\* C24: deleteSong and removeImportedSong leave the songIds of every playlist
\* as they are, and getLocalPlaylistSongs returns the entries of songIds that
\* are still imported songs, each of them, in the order of songIds.
C24_DanglingReferencesKept ==
  /\ [][\A u \in Users, songId \in Songs :
          (DeleteSong(u, songId) \/ RemoveImportedSong(u, songId)) =>
            \A owner \in Users, p \in PlaylistIds :
              getLocalPlaylist(Self', owner, p).songIds = getLocalPlaylist(Self, owner, p).songIds]_vars
  /\ [][\A u \in Users, p \in PlaylistIds :
          GetLocalPlaylistSongs(u, p) =>
            LET songIds == getLocalPlaylist(Self, u, p).songIds
                songs == returned'.value
            IN  /\ Len(songs) = Cardinality(Resolving(u, songIds))
                /\ \A k \in 1..Len(songs) :
                     \E i \in Resolving(u, songIds) :
                       /\ songs[k] = songIds[i]
                       /\ Cardinality({j \in Resolving(u, songIds) : j < i}) = k - 1]_vars

\* The playlist p1 still lists the deleted song s1, and the songs of p1 were
\* read: none came back.
C24_Witness ==
  /\ returned.op = "getLocalPlaylistSongs"
  /\ returned.args = <<"A", "p1">>
  /\ returned.value = <<>>
  /\ getLocalPlaylist(Self, "A", "p1").songIds = <<"s1">>
  /\ getImportedSong(Self, "A", "s1").id = None
  /\ getImportedSong(Self, "A", "s2").id # None

\* No list of theme ids in the table has a theme id twice.
LinksUnique(db) ==
  \A u \in DOMAIN db : \A s \in DOMAIN db[u] : Cardinality(SeqToSet(db[u][s])) = Len(db[u][s])

\* The links repeat a pair of song and theme.
RepeatsLink(songThemes) == \E i, j \in 1..Len(songThemes) : i < j /\ songThemes[i] = songThemes[j]

\* C25 as stated: no list of assigned theme ids has a theme id twice, whatever
\* assignments, removals, deletes and hydrations from any payload came before.
C25_LinksUniqueAlways == LinksUnique(songThemesDb)

\* C25: no step gives a list of assigned theme ids a theme id twice, except
\* the completion of a hydration whose payload has a link twice: lists without
\* a repetition stay so under assignThemeToSong, removeThemeFromSong,
\* deleteTheme, deleteSong, logout and every hydration from the rows of the
\* server or from a payload that repeats no link, and there is no list at the
\* start.
C25_LinksUniqueUnlessPayloadRepeats ==
  /\ songThemesDb = EmptyMap
  /\ [][(LinksUnique(songThemesDb) /\ ~LinksUnique(songThemesDb')) =>
          \E c \in inflight, songThemes \in Payloads :
            RepeatsLink(songThemes) /\ RemoteResolveWith(c, songThemes)]_vars

\* A theme that a hydration linked to s1 was assigned to s1 again, and the
\* list of s1 still has it once, behind another theme.
C25_Witness ==
  /\ currentUserId = "A"
  /\ getSongThemes(Self, "A", "s1") = <<"t2", "t1">>
  /\ \E i \in 1..submitted : opOf[i] = "assignTheme"
  /\ eventCount = MaxEvents

\* C26: with remote synchronization disabled the readiness gate is resolved
\* in every state (a caller of waitUntilReady is never left waiting), the
\* service follows no auth transition (currentUserId stays null), and no call
\* appends a task or reaches the server: the queue is empty, nothing was ever
\* submitted or is in flight, no task can start, and the server's data are
\* those it began with.
C26_DisabledIsLocalOnly ==
  /\ ~remoteEnabled
  /\ readyState = "Resolved"
  /\ waiter \in {"none", "returned"}
  /\ currentUserId = NoUser
  /\ queue = <<>> /\ submitted = 0
  /\ running = Idle /\ inflight = {}
  /\ ~ENABLED TaskStart
  /\ remote = SeedRemote

\* "A" rated a song, then "B" logged in and a caller of waitUntilReady has gone
\* on: the rating of "A" is still in the mirror, and only there.
C26_Witness ==
  /\ ~remoteEnabled
  /\ authUser = "B"
  /\ Has(ratingsDb, "A")
  /\ waiter = "returned"
  /\ queue = <<>>

\* The teardown of finalizePlayerClose has been carried out by this step.
TornDown ==
  /\ app'.closeCalls = app.closeCalls + 1
  /\ player' = initialState
  /\ app'.ytPlayer = "null"
  /\ app'.destroyCalls = IF app.ytPlayer # "null" THEN app.destroyCalls + 1 ELSE app.destroyCalls
  /\ ~app'.showQueue /\ ~app'.isPlaying /\ ~app'.playerReady

\* This step leaves the player service and the YouTube player as they are.
PlayerKept ==
  /\ app'.closeCalls = app.closeCalls
  /\ app'.destroyCalls = app.destroyCalls
  /\ app'.ytPlayer = app.ytPlayer
  /\ player' = player

\* C27: App.closePlayer asks before destroying.  Called without skipConfirm it
\* requests the confirmation dialog and tears nothing down; the teardown
\* (MusicPlayerService.closePlayer called, YouTube player stopped, destroyed
\* and set to null, showQueue, isPlaying and playerReady false) is carried out
\* when that dialog is answered true; called with skipConfirm it carries the
\* teardown out at once and requests no dialog.  No other step tears down.
C27_AsksBeforeDestroying ==
  [][/\ ClosePlayer(FALSE) => (PlayerKept /\ app'.asked = app.asked + 1 /\ app'.confirming)
     /\ SendResult(TRUE) => (app.confirming /\ TornDown /\ app'.asked = app.asked)
     /\ ClosePlayer(TRUE) => (TornDown /\ app'.asked = app.asked /\ ~app'.confirming)
     /\ app'.closeCalls # app.closeCalls => (SendResult(TRUE) \/ ClosePlayer(TRUE))]_vars

\* A song was playing, the user asked to close, was asked once, said yes, and
\* the player is gone.
C27_Witness ==
  /\ app.asked = 1 /\ ~app.confirming
  /\ app.closeCalls = 1 /\ app.destroyCalls = 1
  /\ app.ytPlayer = "null" /\ player = initialState

\* C28: App.closePlayer aborts on cancel.  When the dialog is answered false,
\* MusicPlayerService.closePlayer is not called, the YouTube player is neither
\* stopped nor destroyed and stays referenced, and the state of the player
\* service (queue, currentIndex, currentSong, isPlaying, miniPlayerVisible) is
\* what it was.
C28_AbortsOnCancel ==
  [][SendResult(FALSE) => (PlayerKept /\ ~app'.confirming)]_vars

\* A song is playing after the user asked to close and said no.
C28_Witness ==
  /\ app.asked = 1 /\ ~app.confirming
  /\ app.closeCalls = 0 /\ app.destroyCalls = 0
  /\ app.ytPlayer = "player" /\ player.currentSong # NoSong /\ player.queue # <<>>

\* The song at index j of the queue is the first available one after index i.
NearestAfter(i, j) ==
  /\ j > i /\ j < Len(player.queue) /\ Available(At(player, j))
  /\ \A k \in (i + 1)..(j - 1) : ~Available(At(player, k))

\* The song at index j of the queue is the last available one before index i.
NearestBefore(i, j) ==
  /\ j >= 0 /\ j < i /\ Available(At(player, j))
  /\ \A k \in (j + 1)..(i - 1) : ~Available(At(player, k))

\* This step made the song at index j the current one and returned it.
Moved(j) ==
  /\ player' = [player EXCEPT !.currentIndex = j, !.currentSong = At(player, j)]
  /\ returned'.value = At(player, j)

\* This step returned null and left the player state as it was.
Stayed == player' = player /\ returned'.value = NoSong

\* What playFromQueue(i) is to do.
Chosen(i) ==
  IF i < 0 \/ i >= Len(player.queue) THEN Stayed
  ELSE IF Available(At(player, i)) THEN Moved(i)
  ELSE IF \E j \in QueueIndices : NearestAfter(i, j) THEN \E j \in QueueIndices : NearestAfter(i, j) /\ Moved(j)
  ELSE IF \E j \in QueueIndices : NearestBefore(i, j) THEN \E j \in QueueIndices : NearestBefore(i, j) /\ Moved(j)
  ELSE Stayed

\* C29: queue navigation skips unavailable videos.  playNext and playPrevious
\* make the nearest available song after, respectively before, currentIndex
\* the current song and return it; playFromQueue(i) takes the song at i when it
\* is available, else the nearest available one after i, else the nearest
\* before i; when there is no such song they return null and leave the player
\* state unchanged.  None of them makes an unavailable song the current one.
C29_NavigationSkipsUnavailable ==
  [][/\ PlayNext =>
          IF \E j \in QueueIndices : NearestAfter(player.currentIndex, j)
          THEN \E j \in QueueIndices : NearestAfter(player.currentIndex, j) /\ Moved(j)
          ELSE Stayed
     /\ PlayPrevious =>
          IF \E j \in QueueIndices : NearestBefore(player.currentIndex, j)
          THEN \E j \in QueueIndices : NearestBefore(player.currentIndex, j) /\ Moved(j)
          ELSE Stayed
     /\ \A i \in QueueIndices : PlayFromQueue(i) => Chosen(i)
     /\ (PlayNext \/ PlayPrevious \/ \E i \in QueueIndices : PlayFromQueue(i)) =>
          (player' # player => Available(player'.currentSong))]_vars

\* playNext went from the first song over an unavailable second one to the
\* third.
C29_Witness ==
  /\ returned.op = "playNext"
  /\ Len(player.queue) = 3
  /\ ~Available(player.queue[2])
  /\ player.currentIndex = 2
  /\ player.currentSong = player.queue[3]
  /\ returned.value = player.queue[3]

\* C30: no waiter is stranded.  When every pending request is answered, a
\* caller of waitUntilReady eventually goes on, whatever logins, logouts, user
\* switches and token refreshes happen while it waits.
C30_NoWaiterStranded == (waiter \in {"current", "replaced"}) ~> (waiter = "returned")

\* C31: within one session hydration happens once.  While the same user stays
\* logged in and no login is made, a gate that is Resolved stays Resolved and
\* no further hydration task is put in the queue, also when a task refreshes
\* the token.
C31_HydratesOncePerSession ==
  [][(/\ authUser # NoUser /\ authUser' = authUser
      /\ ~(\E u \in Users : Login(u))
      /\ readyState = "Resolved") =>
       /\ readyState' = "Resolved"
       /\ \A i \in (submitted + 1)..submitted' : opOf'[i] # "hydrate"]_vars

\* C32: no cross-account remote write.  Every request that a task scheduled
\* by a mutation of user u sends to the server carries the credential of u: a
\* task that finds another account logged in sends nothing with that account's
\* token.
C32_NoCrossAccountWrite ==
  \A c \in inflight : c.taskOp # "hydrate" => c.token = c.userId

\* The table after holds a record, under some user key, that the table before
\* did not hold.
Wrote(before, after) ==
  \E k \in DOMAIN after : \E x \in DOMAIN after[k] :
     ~(Has(before, k) /\ Has(before[k], x) /\ before[k][x] = after[k][x])

\* A queue task settles in this step.
TaskSettles == \E i \in 1..submitted : status[i] \in {"queued", "running"} /\ status'[i] \in Settled

\* C33: purged data stays purged.  While nobody is logged in (after a logout,
\* before the next login) a queue task that settles writes no record into any
\* of the five tables, under any user key.
C33_PurgedStaysPurged ==
  [][(authUser = NoUser /\ authUser' = NoUser /\ TaskSettles) =>
       /\ ~Wrote(ratingsDb, ratingsDb') /\ ~Wrote(themesDb, themesDb')
       /\ ~Wrote(songThemesDb, songThemesDb') /\ ~Wrote(importedSongsDb, importedSongsDb')
       /\ ~Wrote(localPlaylistsDb, localPlaylistsDb')]_vars

\* C34: a local delete is not undone by an older task.  A theme or playlist
\* that deleteTheme or deleteLocalPlaylist removed in this session, and that
\* was neither created again nor covered by a hydration since, is not found by
\* getTheme or getLocalPlaylist, also after a save task that was queued before
\* the delete has completed.
C34_DeleteNotUndone ==
  \A x \in ledger :
    /\ x.kind = "theme" => getTheme(Self, x.userId, x.id) = NoTheme
    /\ x.kind = "playlist" => getLocalPlaylist(Self, x.userId, x.id) = NoPlaylist

\* C35: no lost playlist update.  A song that addSongToLocalPlaylist or
\* addSongsToLocalPlaylist added for the active user stays in the songIds of
\* the playlist until the playlist is explicitly changed or deleted, the user
\* logs out or a hydration is applied, also when an earlier save of the
\* playlist is answered; and when the queue has drained with every request
\* answered, the server's copy of the playlist has the song as well.
C35_NoLostPlaylistUpdate ==
  \A x \in ledger :
    x.kind = "song" =>
      /\ Includes(getLocalPlaylist(Self, x.userId, x.id).songIds, x.songId)
      /\ (queue = <<>> /\ running = Idle /\ inflight = {} /\ \A i \in 1..submitted : status[i] = "ok") =>
           /\ Has(remote.playlists, x.id)
           /\ Includes(remote.playlists[x.id].songIds, x.songId)

\* Every task that was scheduled has run and every request was answered
\* without an error.
Quiescent ==
  /\ queue = <<>> /\ running = Idle /\ inflight = {}
  /\ \A i \in 1..submitted : status[i] = "ok"

\* The five mirror tables of u hold what the server holds for u.
MirrorsRemote(u) ==
  LET library == Library(remote, u)
      links == SeqToSet(library.songThemes)
      mine == UserTable(songThemesDb, u)
  IN  /\ DOMAIN UserTable(ratingsDb, u) = DOMAIN library.ratings
      /\ \A x \in DOMAIN library.ratings : ratingsDb[u][x].rating = library.ratings[x]
      /\ DOMAIN UserTable(importedSongsDb, u) = library.songs
      /\ UserTable(themesDb, u) = library.themes
      /\ {l \in (DOMAIN mine) \X ThemeIds : Includes(mine[l[1]], l[2])} = links
      /\ UserTable(localPlaylistsDb, u) = library.playlists

\* C36: convergence at quiescence.  In a session of one user in which every
\* request succeeds, once the queue is idle the mirror tables of the user
\* equal the server's data of the user, also when local mutations were made
\* while the hydration of the login was in flight.
C36_ConvergesAtQuiescence ==
  (authUser \in Users /\ currentUserId = authUser /\ Quiescent) => MirrorsRemote(authUser)

\* The step leaves the table db as it is under every key but k.
OnlyKey(db, after, k) ==
  \A x \in Keys \ {k} : Has(after, x) = Has(db, x) /\ UserTable(after, x) = UserTable(db, x)

\* C37: a mutating call whose userId is not the active user (or that is made
\* while no user is active) changes only the mirror tables of that userId and
\* appends no task to the queue: nothing is submitted, no request is sent, the
\* server's data and the session stay as they are.
C37_ForeignCallsStayLocal ==
  [][\A u \in Users :
       (u # currentUserId /\ Mutation(u)) =>
         /\ submitted' = submitted /\ Len(queue') = Len(queue)
         /\ status' = status /\ calls' = calls /\ opOf' = opOf
         /\ inflight' = inflight /\ remote' = remote /\ running' = running
         /\ currentUserId' = currentUserId /\ readyState' = readyState
         /\ OnlyKey(ratingsDb, ratingsDb', u) /\ OnlyKey(themesDb, themesDb', u)
         /\ OnlyKey(songThemesDb, songThemesDb', u) /\ OnlyKey(importedSongsDb, importedSongsDb', u)
         /\ OnlyKey(localPlaylistsDb, localPlaylistsDb', u)]_vars

\* While "A" is the active user and its hydrations are the only tasks there
\* ever were, the mirror holds a rating and a theme made with the id of "B",
\* and the server holds what it held.
C37_Witness ==
  /\ currentUserId = "A"
  /\ Has(ratingsDb, "B") /\ Has(themesDb, "B")
  /\ \A i \in 1..submitted : opOf[i] = "hydrate"
  /\ queue = <<>> /\ inflight = {}
  /\ remote = SeedRemote

\* C38: once playSong started playback from a list that holds the song, and
\* through playNext, playPrevious, playFromQueue, addToQueue, addToPlayNext,
\* removeFromQueue, reorderQueue and cutoffQueueAt at positions of the queue,
\* a current song is the song at currentIndex, which is a position of the
\* queue; reorderQueue leaves the current song the current one and the queue
\* with the same songs as often as before.  (After removeFromQueue emptied
\* the queue no song is current and currentIndex is 0; a song added then is
\* made the current one by the next reorderQueue or cutoffQueueAt.)
Occurrences(array, song) == Cardinality({i \in 1..Len(array) : array[i] = song})

CurrentIsQueued ==
  player.miniPlayerVisible /\ player.currentSong # NoSong
    => /\ InRange(player.currentIndex)
       /\ At(player, player.currentIndex) = player.currentSong

ReorderKeeps ==
  \A fromIndex, toIndex \in QueueIndices :
    InRange(fromIndex) /\ InRange(toIndex) /\ player.miniPlayerVisible /\ ReorderQueue(fromIndex, toIndex)
      => /\ player.currentSong # NoSong => player'.currentSong = player.currentSong
         /\ \A song \in QueueSongs : Occurrences(player'.queue, song) = Occurrences(player.queue, song)

C38_QueueInvariant == []CurrentIsQueued /\ [][ReorderKeeps]_vars

\* reorderQueue moved a song from before the current one to behind it.
C38_Witness ==
  /\ returned.op = "reorderQueue"
  /\ player.miniPlayerVisible /\ player.currentSong # NoSong
  /\ returned.args[1] <= player.currentIndex
  /\ player.currentIndex < returned.args[2]

====
